---- MODULE Spec2Model ----
(***************************************************************************)
(* A model of go-envied (package envied): the type classifier, the         *)
(* environment loader, the consistency checker, the obfuscator and the     *)
(* merged-file code emitter.                                               *)
(*                                                                         *)
(* Strings are sequences of bytes (0..255), as Go strings are.  A Go int   *)
(* in [0, 2^32) is a pair <<hi, lo>> of 16-bit halves, so that the 32-bit  *)
(* keys of ObfuscateString keep their width.                               *)
(***************************************************************************)
EXTENDS Integers, Sequences, FiniteSets, TLC

VARIABLES
    \* ObfuscateString / DeobfuscateString calls
    value, seed, now1, keys1, cipher1, decoded, now2, keys2, cipher2, opc,
    \* DetectFieldType calls
    raw, ftype,
    \* checkEnvironmentConsistency calls
    chkEnvVars, chkResult,
    \* GenerateFromConfigFile runs: the configuration and the files it names,
    \* the position in the function, its locals, the output file
    cfgFiles, cfgSeed, gpc, allEnvVars, mergedData, gerr, gclock, obfCalls,
    outFile, runs, prevOut

obfVars == <<value, seed, now1, keys1, cipher1, decoded, now2, keys2, cipher2, opc>>
detVars == <<raw, ftype>>
chkVars == <<chkEnvVars, chkResult>>

VARIABLES ldFile, ldFields, ldErr, lpc

VARIABLES evFields, evEnviron, evDisk, evErr, evFile, evEntry, epc

VARIABLES prText, prInt, prBool, ppc

VARIABLES kbValue, kbKey, kbCipher, kbPlain, kpc

VARIABLES sdValue, sdSeedA, sdSeedB, sdNowA, sdNowB, sdOutA, sdOutB, spc

genVars == <<cfgFiles, cfgSeed, gpc, allEnvVars, mergedData, gerr, gclock,
             obfCalls, outFile, runs, prevOut>>

\* a call of LoadEnvFile: the file at the path, the fields and the error it
\* returns
ldVars == <<ldFile, ldFields, ldErr, lpc>>

\* a call of Generator.GenerateFromEnvVars: g.config.Fields, the process
\* environment, whether the output directory and the file can be created,
\* the error returned, the file written, and g.config.Fields as each run of
\* generateConfigFile found them
evVars == <<evFields, evEnviron, evDisk, evErr, evFile, evEntry, epc>>

\* a call of ParseInt or of ParseBool: the text and the result
prVars == <<prText, prInt, prBool, ppc>>

\* a call of Obfuscate, then of Deobfuscate on its result with the same key
kbVars == <<kbValue, kbKey, kbCipher, kbPlain, kpc>>

\* two calls of ObfuscateString on one value with two seeds
sdVars == <<sdValue, sdSeedA, sdSeedB, sdNowA, sdNowB, sdOutA, sdOutB, spc>>

vars == <<obfVars, detVars, chkVars, genVars, ldVars, evVars, prVars, kbVars,
          sdVars>>

----------------------------------------------------------------------------
(* Values of the state before and between calls *)

\* the result of checkEnvironmentConsistency: nil, or the error naming a
\* variable and an environment
CheckPassed == [status |-> "ok", varName |-> <<>>, envName |-> <<>>]
CheckFailed(v, e) == [status |-> "error", varName |-> v, envName |-> e]
\* no result yet
CheckPending(st) == [status |-> st, varName |-> <<>>, envName |-> <<>>]

NoError == [kind |-> "none", envName |-> <<>>, varName |-> <<>>]
NoData == [PackageName |-> <<>>, RandomSeed |-> 0, Environments |-> <<>>,
           AllFields |-> <<>>]
\* the output file before the run: absent, or left by an earlier run
Absent == [exists |-> FALSE, content |-> <<>>]
Stale == [exists |-> TRUE, content |-> <<[kind |-> "package", name |-> <<111, 108, 100>>]>>]

\* no GenerateFromConfigFile run is under way
GenIdle ==
    /\ cfgFiles = <<>> /\ cfgSeed = 0 /\ gpc = "idle"
    /\ allEnvVars = <<>> /\ mergedData = NoData /\ gerr = NoError
    /\ gclock = 0 /\ obfCalls = 0 /\ outFile = Absent
    /\ runs = 0 /\ prevOut = Absent

\* no ObfuscateString call is under way
ObfIdle ==
    /\ value = <<>> /\ seed = 0 /\ now1 = 0 /\ now2 = 0
    /\ keys1 = <<>> /\ cipher1 = <<>> /\ decoded = <<>>
    /\ keys2 = <<>> /\ cipher2 = <<>>
    /\ opc = "idle"

\* no LoadEnvFile call is under way
LoadIdle ==
    /\ ldFile = [state |-> "missing", content |-> <<>>] /\ ldFields = <<>>
    /\ ldErr = "none" /\ lpc = "idle"

\* no GenerateFromEnvVars call is under way
EnvIdle ==
    /\ evFields = <<>> /\ evEnviron = <<>> /\ evDisk = "ok"
    /\ evErr = "none" /\ evFile = Absent /\ evEntry = <<>> /\ epc = "idle"

\* a Go int, by its sign and its decimal digits without leading zeros
GoInt(neg, digits) == [neg |-> neg, digits |-> digits]
\* the int 0
ZeroInt == GoInt(FALSE, <<>>)

\* no ParseInt or ParseBool call is under way
ParseIdle == prText = <<>> /\ prInt = ZeroInt /\ prBool = FALSE /\ ppc = "idle"

\* no Obfuscate call is under way
KeyIdle ==
    /\ kbValue = <<>> /\ kbKey = <<>> /\ kbCipher = <<>> /\ kbPlain = <<>>
    /\ kpc = "idle"

\* no pair of ObfuscateString calls is under way
SeedIdle ==
    /\ sdValue = <<>> /\ sdSeedA = 0 /\ sdSeedB = 0 /\ sdNowA = 0 /\ sdNowB = 0
    /\ sdOutA = <<>> /\ sdOutB = <<>> /\ spc = "idle"

\* no DetectFieldType call is under way
DetIdle == raw = <<>> /\ ftype = "idle"

\* no checkEnvironmentConsistency call is under way
ChkIdle == chkEnvVars = <<>> /\ chkResult = CheckPending("idle")

----------------------------------------------------------------------------
(* Bounds *)

\* most environments given to checkEnvironmentConsistency
MaxCheckEnvs == 3
\* longest text given to DetectFieldType, in units (a character or a word)
MaxRawUnits == 3
\* longest string value given to ObfuscateString, in units (a character's
\* encoding, or a stray byte)
MaxValueUnits == 3
\* last reading of the wall clock (time.Now().UnixNano(), abstracted)
MaxClock == 3
\* most fields of the configuration given to GenerateFromEnvVars
MaxFields == 2
\* most lines of a file given to LoadEnvFile
MaxLines == 3
\* most entries of a key or cipher sequence handed to DeobfuscateString
MaxWords == 2
\* most runs of generateConfigFile on one Generator
MaxConfigRuns == 2

----------------------------------------------------------------------------
(* Bytes and text *)

Ord ==
    ("0" :> 48) @@ ("1" :> 49) @@ ("2" :> 50) @@ ("3" :> 51) @@ ("4" :> 52) @@
    ("5" :> 53) @@ ("6" :> 54) @@ ("7" :> 55) @@ ("8" :> 56) @@ ("9" :> 57) @@
    ("+" :> 43) @@ ("-" :> 45) @@ ("." :> 46) @@ ("=" :> 61) @@ ("#" :> 35) @@
    ("_" :> 95) @@ (" " :> 32) @@ ("\t" :> 9) @@ ("\n" :> 10) @@ ("\r" :> 13) @@
    ("\"" :> 34) @@ ("A" :> 65) @@ ("B" :> 66) @@ ("C" :> 67) @@ ("D" :> 68) @@
    ("E" :> 69) @@ ("F" :> 70) @@ ("G" :> 71) @@ ("H" :> 72) @@ ("I" :> 73) @@
    ("J" :> 74) @@ ("K" :> 75) @@ ("L" :> 76) @@ ("M" :> 77) @@ ("N" :> 78) @@
    ("O" :> 79) @@ ("P" :> 80) @@ ("Q" :> 81) @@ ("R" :> 82) @@ ("S" :> 83) @@
    ("T" :> 84) @@ ("U" :> 85) @@ ("V" :> 86) @@ ("W" :> 87) @@ ("X" :> 88) @@
    ("Y" :> 89) @@ ("Z" :> 90) @@ ("a" :> 97) @@ ("b" :> 98) @@ ("c" :> 99) @@
    ("d" :> 100) @@ ("e" :> 101) @@ ("f" :> 102) @@ ("g" :> 103) @@
    ("h" :> 104) @@ ("i" :> 105) @@ ("j" :> 106) @@ ("k" :> 107) @@
    ("l" :> 108) @@ ("m" :> 109) @@ ("n" :> 110) @@ ("o" :> 111) @@
    ("p" :> 112) @@ ("q" :> 113) @@ ("r" :> 114) @@ ("s" :> 115) @@
    ("t" :> 116) @@ ("u" :> 117) @@ ("v" :> 118) @@ ("w" :> 119) @@
    ("x" :> 120) @@ ("y" :> 121) @@ ("z" :> 122)

\* the bytes of a text given as a tuple of one-character strings
S(t) == [i \in 1..Len(t) |-> Ord[t[i]]]

\* all concatenations of at most n of the byte strings in units
RECURSIVE TextsUpTo(_, _)
TextsUpTo(units, n) ==
    IF n = 0 THEN {<<>>}
    ELSE LET shorter == TextsUpTo(units, n - 1)
         IN  shorter \cup {s \o u : s \in shorter, u \in units}

\* bitwise exclusive or of two naturals
RECURSIVE Xor(_, _)
Xor(a, b) ==
    IF a = 0 THEN b
    ELSE IF b = 0 THEN a
    ELSE (((a % 2) + (b % 2)) % 2) + 2 * Xor(a \div 2, b \div 2)

\* a Go int in [0, 2^32) as <<high 16 bits, low 16 bits>>
WordOf(n) == <<n \div 65536, n % 65536>>
XorWord(a, b) == <<Xor(a[1], b[1]), Xor(a[2], b[2])>>

\* rune(x) for an int x in [0, 2^32): the conversion to int32 keeps the low
\* 32 bits and reads them as two's complement
RuneOfWord(w) ==
    IF w[1] >= 32768 THEN (w[1] - 65536) * 65536 + w[2]
    ELSE w[1] * 65536 + w[2]

IsCont(b) == b >= 128 /\ b <= 191

\* utf8.DecodeRuneInString on a non-empty s: <<rune, width>>; an invalid or
\* truncated encoding is the replacement character U+FFFD of width 1
DecodeRune(s) ==
    LET n  == Len(s)
        b0 == s[1]
        bad == <<65533, 1>>
    IN  IF b0 < 128 THEN <<b0, 1>>
        ELSE IF b0 >= 194 /\ b0 <= 223 THEN
            IF n >= 2 /\ IsCont(s[2])
            THEN <<(b0 - 192) * 64 + (s[2] - 128), 2>> ELSE bad
        ELSE IF b0 >= 224 /\ b0 <= 239 THEN
            IF n >= 3
               /\ s[2] >= (IF b0 = 224 THEN 160 ELSE 128)
               /\ s[2] <= (IF b0 = 237 THEN 159 ELSE 191)
               /\ IsCont(s[3])
            THEN <<(b0 - 224) * 4096 + (s[2] - 128) * 64 + (s[3] - 128), 3>>
            ELSE bad
        ELSE IF b0 >= 240 /\ b0 <= 244 THEN
            IF n >= 4
               /\ s[2] >= (IF b0 = 240 THEN 144 ELSE 128)
               /\ s[2] <= (IF b0 = 244 THEN 143 ELSE 191)
               /\ IsCont(s[3]) /\ IsCont(s[4])
            THEN <<(b0 - 240) * 262144 + (s[2] - 128) * 4096
                    + (s[3] - 128) * 64 + (s[4] - 128), 4>>
            ELSE bad
        ELSE bad

\* []rune(s)
RECURSIVE Runes(_)
Runes(s) ==
    IF s = <<>> THEN <<>>
    ELSE LET d == DecodeRune(s)
         IN  <<d[1]>> \o Runes(SubSeq(s, d[2] + 1, Len(s)))

\* string(rune): the UTF-8 encoding, U+FFFD for a rune that is no scalar value
EncodeRune(r) ==
    IF r < 0 \/ r > 1114111 \/ (r >= 55296 /\ r <= 57343) THEN <<239, 191, 189>>
    ELSE IF r < 128 THEN <<r>>
    ELSE IF r < 2048 THEN <<192 + (r \div 64), 128 + (r % 64)>>
    ELSE IF r < 65536 THEN
        <<224 + (r \div 4096), 128 + ((r \div 64) % 64), 128 + (r % 64)>>
    ELSE <<240 + (r \div 262144), 128 + ((r \div 4096) % 64),
           128 + ((r \div 64) % 64), 128 + (r % 64)>>

\* string([]rune)
RECURSIVE StringOfRunes(_)
StringOfRunes(rs) ==
    IF rs = <<>> THEN <<>>
    ELSE EncodeRune(Head(rs)) \o StringOfRunes(Tail(rs))

----------------------------------------------------------------------------
(* Value classifier: strconv.ParseBool, strconv.Atoi, strconv.ParseFloat   *)
(* as DetectFieldType uses them, that is, whether each returns a nil error *)

IsDigit(b) == b >= 48 /\ b <= 57
Lower(b) == IF b >= 65 /\ b <= 90 THEN b + 32 ELSE b
LowerAll(s) == [i \in 1..Len(s) |-> Lower(s[i])]
IsHexLetter(b) == Lower(b) >= 97 /\ Lower(b) <= 102

\* strconv.ParseBool: err == nil exactly for these twelve spellings
BoolTrue == {S(<<"1">>), S(<<"t">>), S(<<"T">>), S(<<"T", "R", "U", "E">>),
             S(<<"t", "r", "u", "e">>), S(<<"T", "r", "u", "e">>)}
BoolFalse == {S(<<"0">>), S(<<"f">>), S(<<"F">>), S(<<"F", "A", "L", "S", "E">>),
              S(<<"f", "a", "l", "s", "e">>), S(<<"F", "a", "l", "s", "e">>)}
ParseBoolOK(s) == s \in BoolTrue \cup BoolFalse

\* the decimal digits of s, in order, as numbers
RECURSIVE DigitsOf(_)
DigitsOf(s) ==
    IF s = <<>> THEN <<>>
    ELSE IF IsDigit(Head(s)) THEN <<Head(s) - 48>> \o DigitsOf(Tail(s))
    ELSE DigitsOf(Tail(s))

RECURSIVE StripZeros(_)
StripZeros(d) == IF d # <<>> /\ Head(d) = 0 THEN StripZeros(Tail(d)) ELSE d

\* digit sequences of equal length: a is at most b as a number
RECURSIVE DigitsLeq(_, _)
DigitsLeq(a, b) ==
    \/ a = <<>>
    \/ Head(a) < Head(b)
    \/ Head(a) = Head(b) /\ DigitsLeq(Tail(a), Tail(b))

\* 2^63 - 1, the largest int, digit by digit
MaxInt64Digits == <<9, 2, 2, 3, 3, 7, 2, 0, 3, 6, 8, 5, 4, 7, 7, 5, 8, 0, 7>>

\* strconv.Atoi: an optional sign, then decimal digits, at least one, that
\* spell a number an int (64 bits) holds
AtoiOK(s) ==
    LET signed == Len(s) >= 1 /\ s[1] \in {43, 45}
        digits == IF signed THEN Tail(s) ELSE s
        sig    == StripZeros(DigitsOf(digits))
        limit  == IF signed /\ s[1] = 45
                  THEN [MaxInt64Digits EXCEPT ![19] = 8] ELSE MaxInt64Digits
    IN  /\ Len(digits) >= 1
        /\ \A i \in 1..Len(digits) : IsDigit(digits[i])
        /\ \/ Len(sig) < 19
           \/ Len(sig) = 19 /\ DigitsLeq(sig, limit)

\* special: the length of the prefix that spells an infinity or a NaN
\* ([+-]inf, [+-]infinity, nan, in any case), 0 when there is none
SpecialLen(s) ==
    LET signed == Len(s) >= 1 /\ s[1] \in {43, 45}
        rest   == LowerAll(IF signed THEN Tail(s) ELSE s)
        nsign  == IF signed THEN 1 ELSE 0
        inf    == S(<<"i", "n", "f">>)
        inity  == S(<<"i", "n", "f", "i", "n", "i", "t", "y">>)
    IN  IF Len(rest) >= 8 /\ SubSeq(rest, 1, 8) = inity THEN nsign + 8
        ELSE IF Len(rest) >= 3 /\ SubSeq(rest, 1, 3) = inf THEN nsign + 3
        ELSE IF ~signed /\ Len(rest) >= 3 /\ SubSeq(rest, 1, 3) = S(<<"n", "a", "n">>)
             THEN 3
        ELSE 0

\* readFloat's mantissa loop from position i: the first position it does not
\* consume (underscores, one point, digits, hexadecimal letters when hex)
RECURSIVE MantissaEnd(_, _, _, _)
MantissaEnd(s, i, hex, sawdot) ==
    IF i > Len(s) THEN i
    ELSE IF s[i] = 95 THEN MantissaEnd(s, i + 1, hex, sawdot)
    ELSE IF s[i] = 46 THEN
        IF sawdot THEN i ELSE MantissaEnd(s, i + 1, hex, TRUE)
    ELSE IF IsDigit(s[i]) \/ (hex /\ IsHexLetter(s[i]))
        THEN MantissaEnd(s, i + 1, hex, sawdot)
    ELSE i

\* readFloat's exponent digits loop from position i
RECURSIVE ExponentEnd(_, _)
ExponentEnd(s, i) ==
    IF i <= Len(s) /\ (IsDigit(s[i]) \/ s[i] = 95)
    THEN ExponentEnd(s, i + 1) ELSE i

\* underscoreOK from position i, saw being the last character seen ("0" a
\* digit, "_" an underscore, "!" another one, "^" none)
RECURSIVE UnderscoreScan(_, _, _, _)
UnderscoreScan(s, i, hex, saw) ==
    IF i > Len(s) THEN saw # "_"
    ELSE IF IsDigit(s[i]) \/ (hex /\ IsHexLetter(s[i]))
        THEN UnderscoreScan(s, i + 1, hex, "0")
    ELSE IF s[i] = 95 THEN
        IF saw # "0" THEN FALSE ELSE UnderscoreScan(s, i + 1, hex, "_")
    ELSE IF saw = "_" THEN FALSE
    ELSE UnderscoreScan(s, i + 1, hex, "!")

\* underscoreOK: underscores only between digits, or between a base prefix
\* and a digit
UnderscoreOK(s0) ==
    LET s == IF Len(s0) >= 1 /\ s0[1] \in {43, 45} THEN Tail(s0) ELSE s0
        prefixed == Len(s) >= 2 /\ s[1] = 48 /\ Lower(s[2]) \in {98, 111, 120}
        hex == prefixed /\ Lower(s[2]) = 120
    IN  IF prefixed THEN UnderscoreScan(s, 3, hex, "0")
        ELSE UnderscoreScan(s, 1, FALSE, "^")

\* the number a digit sequence spells, at most 10000 as readFloat caps it
RECURSIVE CappedValue(_, _)
CappedValue(d, acc) ==
    IF d = <<>> THEN acc
    ELSE CappedValue(Tail(d), IF acc < 10000 THEN acc * 10 + Head(d) ELSE acc)

RECURSIVE LeadingNum(_, _, _)
LeadingNum(d, k, acc) ==
    IF k > 9 THEN acc
    ELSE LeadingNum(d, k + 1, acc * 10 + (IF k <= Len(d) THEN d[k] ELSE 0))

\* the first nine digits of d, padded with zeros, as one number
Leading9(d) == LeadingNum(d, 1, 0)

\* a decimal literal with mantissa text m and exponent e is beyond the
\* largest float64, 1.7976931348623157e308 (ParseFloat then returns
\* ErrRange).  Mantissas agreeing with that number in their first nine
\* significant digits are taken as in range.
DecimalOverflows(m, e) ==
    LET dot    == IF \E i \in 1..Len(m) : m[i] = 46
                  THEN CHOOSE i \in 1..Len(m) : m[i] = 46 ELSE Len(m) + 1
        intd   == DigitsOf(SubSeq(m, 1, dot - 1))
        fracd  == DigitsOf(SubSeq(m, dot + 1, Len(m)))
        all    == intd \o fracd
        sig    == StripZeros(all)
        \* position of the decimal point relative to the first significant
        \* digit: the value is 0.d1d2... * 10^dp
        dp     == Len(intd) - (Len(all) - Len(sig)) + e
    IN  /\ sig # <<>>
        /\ \/ dp > 309
           \/ dp = 309 /\ Leading9(sig) > 179769313

\* strconv.ParseFloat(s, 64) returns a nil error.  A hexadecimal literal is
\* taken as in range: one beyond the largest float64 needs an exponent of
\* four digits.
ParseFloatOK(s) ==
    IF SpecialLen(s) > 0 THEN SpecialLen(s) = Len(s)
    ELSE
    LET n      == Len(s)
        start  == IF n >= 1 /\ s[1] \in {43, 45} THEN 2 ELSE 1
        \* a base prefix needs a character after it: i+2 < len(s)
        hex    == start + 2 <= n /\ s[start] = 48 /\ Lower(s[start + 1]) = 120
        mfrom  == IF hex THEN start + 2 ELSE start
        mend   == MantissaEnd(s, mfrom, hex, FALSE)
        sawdigits == \E i \in mfrom..(mend - 1) :
                         IsDigit(s[i]) \/ (hex /\ IsHexLetter(s[i]))
        expChar == IF hex THEN 112 ELSE 101
        sawexp == mend <= n /\ Lower(s[mend]) = expChar
        efrom  == IF mend + 1 <= n /\ s[mend + 1] \in {43, 45}
                  THEN mend + 2 ELSE mend + 1
        expOK  == efrom <= n /\ IsDigit(s[efrom])
        eend   == ExponentEnd(s, efrom)
        last   == IF sawexp THEN eend - 1 ELSE mend - 1
        eabs   == CappedValue(DigitsOf(SubSeq(s, efrom, last)), 0)
        e      == IF ~sawexp THEN 0
                  ELSE IF s[mend + 1] = 45 THEN 0 - eabs ELSE eabs
        under  == \E i \in 1..last : s[i] = 95
    IN  /\ n >= 1
        /\ sawdigits
        /\ IF sawexp THEN expOK ELSE ~hex
        /\ under => UnderscoreOK(SubSeq(s, 1, last))
        /\ last = n
        /\ hex \/ ~DecimalOverflows(SubSeq(s, mfrom, mend - 1), e)

\* strconv.Atoi finds no syntax error: an optional sign, then decimal
\* digits, at least one
AtoiSyntaxOK(s) ==
    LET signed == Len(s) >= 1 /\ s[1] \in {43, 45}
        digits == IF signed THEN Tail(s) ELSE s
    IN  Len(digits) >= 1 /\ \A i \in 1..Len(digits) : IsDigit(digits[i])

\* ParseInt(value): the int strconv.Atoi returns, its error dropped: 0 with
\* a syntax error, the nearest of 2^63 - 1 and -2^63 with a range error, the
\* number otherwise
ParseInt(v) ==
    IF ~AtoiSyntaxOK(v) THEN ZeroInt
    ELSE LET sig == StripZeros(DigitsOf(v))
             neg == v[1] = 45
         IN  IF AtoiOK(v) THEN GoInt(neg /\ sig # <<>>, sig)
             ELSE IF neg THEN GoInt(TRUE, [MaxInt64Digits EXCEPT ![19] = 8])
             ELSE GoInt(FALSE, MaxInt64Digits)

\* ParseBool(value): strconv.ParseBool with the error dropped, false on failure
ParseBool(v) == v \in BoolTrue

\* DetectFieldType trying Atoi before ParseBool
DetectFieldTypeIntFirst(v) ==
    IF AtoiOK(v) THEN "int"
    ELSE IF ParseBoolOK(v) THEN "bool"
    ELSE IF ParseFloatOK(v) THEN "float64"
    ELSE "string"

\* DetectFieldType taking every case mix of true and false for a Bool
DetectFieldTypeFoldingCase(v) ==
    IF ParseBoolOK(v) \/ LowerAll(v) \in {S(<<"t", "r", "u", "e">>),
                                          S(<<"f", "a", "l", "s", "e">>)}
    THEN "bool"
    ELSE IF AtoiOK(v) THEN "int"
    ELSE IF ParseFloatOK(v) THEN "float64"
    ELSE "string"

\* DetectFieldType taking signed digits of any length for an Int
DetectFieldTypeAnyLength(v) ==
    IF ParseBoolOK(v) THEN "bool"
    ELSE IF AtoiSyntaxOK(v) THEN "int"
    ELSE IF ParseFloatOK(v) THEN "float64"
    ELSE "string"

\* DetectFieldType taking every text that begins with a digit for a number
DetectFieldTypeLeadingDigit(v) ==
    IF ParseBoolOK(v) THEN "bool"
    ELSE IF AtoiOK(v) THEN "int"
    ELSE IF ParseFloatOK(v) \/ (v # <<>> /\ IsDigit(v[1])) THEN "float64"
    ELSE "string"

\* DetectFieldType(value): FieldTypeBool, FieldTypeInt, FieldTypeFloat or
\* FieldTypeString
DetectFieldType(v) ==
    IF ParseBoolOK(v) THEN "bool"
    ELSE IF AtoiOK(v) THEN "int"
    ELSE IF ParseFloatOK(v) THEN "float64"
    ELSE "string"

\* what the classified texts are made of
RawUnits ==
    {S(<<"0">>), S(<<"1">>), S(<<"7">>), S(<<"-">>), S(<<"+">>), S(<<".">>),
     S(<<"e">>), S(<<"E">>), S(<<" ">>), S(<<"\t">>), S(<<"_">>), S(<<"a">>),
     S(<<"t">>), S(<<"p">>), S(<<"0", "x">>), S(<<"t", "r", "u", "e">>),
     S(<<"i", "n", "f">>), S(<<"n", "a", "n">>)}

\* longer texts: those of TestDetectFieldType and TestFieldTypeEdgeCases, and
\* numbers at the limits of int and float64
RawSamples ==
    {S(<<"0", "0", "7">>), S(<<"-", "4", "5", "6">>), S(<<"-", "0", ".", "5">>),
     S(<<"1", ".", "2", "3", "E", "+", "0", "2">>),
     S(<<"1", ".", "2", "3", "e", "-", "0", "2">>),
     S(<<" ", " ", "1", "2", "3", " ", " ">>), S(<<" ", " ", " ">>),
     S(<<"T", "R", "U", "E">>), S(<<"f", "a", "l", "s", "e">>),
     S(<<"T", "r", "u", "e">>), S(<<"t", "R", "u", "E">>),
     S(<<"1", "2", "3", "a", "b", "c">>), S(<<"1", "e", "9", "9", "9">>),
     S(<<"1", ".", "8", "e", "3", "0", "8">>), S(<<"1", ".", "7", "e", "3", "0", "8">>),
     S(<<"0", ".", "0", "1", "e", "3", "1", "1">>),
     S(<<"1", "e", "-", "9", "9", "9">>),
     S(<<"I", "n", "f", "i", "n", "i", "t", "y">>), S(<<"N", "a", "N">>),
     S(<<"0", "X", "1", "P", "-", "2">>), S(<<"1", "_", "0", "0", "0", ".", "5">>),
     S(<<"9", "2", "2", "3", "3", "7", "2", "0", "3", "6", "8", "5", "4", "7",
         "7", "5", "8", "0", "7">>),
     S(<<"9", "2", "2", "3", "3", "7", "2", "0", "3", "6", "8", "5", "4", "7",
         "7", "5", "8", "0", "8">>),
     S(<<"-", "9", "2", "2", "3", "3", "7", "2", "0", "3", "6", "8", "5", "4",
         "7", "7", "5", "8", "0", "8">>)}

DetInit ==
    /\ raw \in TextsUpTo(RawUnits, MaxRawUnits) \cup RawSamples
    /\ ftype = "none"

\* ftype := DetectFieldType(raw)
Detect ==
    /\ ftype = "none"
    /\ ftype' = DetectFieldType(raw)
    /\ UNCHANGED raw
    /\ UNCHANGED <<obfVars, chkVars, genVars, ldVars, evVars, prVars, kbVars, sdVars>>

----------------------------------------------------------------------------
(* Environment loader *)

\* unicode.IsSpace
IsSpaceRune(r) ==
    \/ r \in {9, 10, 11, 12, 13, 32, 133, 160, 5760, 8232, 8233, 8239, 8287, 12288}
    \/ r >= 8192 /\ r <= 8202

\* utf8.DecodeLastRuneInString on a non-empty s: <<rune, width>>
DecodeLastRune(s) ==
    LET n == Len(s)
        Fits(k) == /\ k <= n
                   /\ ~IsCont(s[n - k + 1])
                   /\ \A i \in (n - k + 2)..n : IsCont(s[i])
                   /\ DecodeRune(SubSeq(s, n - k + 1, n))[2] = k
    IN  IF s[n] < 128 THEN <<s[n], 1>>
        ELSE IF \E k \in 2..4 : Fits(k)
             THEN LET k == CHOOSE k \in 2..4 : Fits(k)
                  IN  <<DecodeRune(SubSeq(s, n - k + 1, n))[1], k>>
        ELSE <<65533, 1>>

RECURSIVE TrimLeft(_)
TrimLeft(s) ==
    IF s = <<>> THEN s
    ELSE LET d == DecodeRune(s)
         IN  IF IsSpaceRune(d[1]) THEN TrimLeft(SubSeq(s, d[2] + 1, Len(s)))
             ELSE s

RECURSIVE TrimRight(_)
TrimRight(s) ==
    IF s = <<>> THEN s
    ELSE LET d == DecodeLastRune(s)
         IN  IF IsSpaceRune(d[1]) THEN TrimRight(SubSeq(s, 1, Len(s) - d[2]))
             ELSE s

\* strings.TrimSpace
TrimSpace(s) == TrimRight(TrimLeft(s))

\* the position of the first byte b in s, 0 when there is none
FirstIndex(s, b) ==
    IF \E i \in 1..Len(s) : s[i] = b
    THEN CHOOSE i \in 1..Len(s) : s[i] = b /\ \A j \in 1..(i - 1) : s[j] # b
    ELSE 0

\* strings.Split(s, "\n")
RECURSIVE SplitLines(_)
SplitLines(s) ==
    LET k == FirstIndex(s, 10)
    IN  IF k = 0 THEN <<s>>
        ELSE <<SubSeq(s, 1, k - 1)>> \o SplitLines(SubSeq(s, k + 1, Len(s)))

\* the loop of ReadEnvFile without the test for a leading '#'
RECURSIVE ReadLinesKeepingComments(_, _, _)
ReadLinesKeepingComments(lines, i, envVars) ==
    IF i > Len(lines) THEN envVars
    ELSE LET line == TrimSpace(lines[i])
             eq   == FirstIndex(line, 61)
         IN  IF line = <<>> \/ eq = 0
             THEN ReadLinesKeepingComments(lines, i + 1, envVars)
             ELSE ReadLinesKeepingComments(lines, i + 1,
                     (SubSeq(line, 1, eq - 1) :> SubSeq(line, eq + 1, Len(line)))
                         @@ envVars)

\* the position of the last byte b in s, 0 when there is none
LastIndex(s, b) ==
    IF \E i \in 1..Len(s) : s[i] = b
    THEN CHOOSE i \in 1..Len(s) : s[i] = b /\ \A j \in (i + 1)..Len(s) : s[j] # b
    ELSE 0

\* the loop of ReadEnvFile splitting each line at its last '='
RECURSIVE ReadLinesAtLastEq(_, _, _)
ReadLinesAtLastEq(lines, i, envVars) ==
    IF i > Len(lines) THEN envVars
    ELSE LET line == TrimSpace(lines[i])
             eq   == LastIndex(line, 61)
         IN  IF line = <<>> \/ line[1] = 35 \/ eq = 0
             THEN ReadLinesAtLastEq(lines, i + 1, envVars)
             ELSE ReadLinesAtLastEq(lines, i + 1,
                     (SubSeq(line, 1, eq - 1) :> SubSeq(line, eq + 1, Len(line)))
                         @@ envVars)

\* the loop of ReadEnvFile keeping the first value of a name
RECURSIVE ReadLinesFirstWins(_, _, _)
ReadLinesFirstWins(lines, i, envVars) ==
    IF i > Len(lines) THEN envVars
    ELSE LET line == TrimSpace(lines[i])
             eq   == FirstIndex(line, 61)
         IN  IF line = <<>> \/ line[1] = 35 \/ eq = 0
             THEN ReadLinesFirstWins(lines, i + 1, envVars)
             ELSE ReadLinesFirstWins(lines, i + 1,
                     envVars @@
                     (SubSeq(line, 1, eq - 1) :> SubSeq(line, eq + 1, Len(line))))

\* the loop of ReadEnvFile trimming each value as well as each line
RECURSIVE ReadLinesTrimmingValues(_, _, _)
ReadLinesTrimmingValues(lines, i, envVars) ==
    IF i > Len(lines) THEN envVars
    ELSE LET line == TrimSpace(lines[i])
             eq   == FirstIndex(line, 61)
         IN  IF line = <<>> \/ line[1] = 35 \/ eq = 0
             THEN ReadLinesTrimmingValues(lines, i + 1, envVars)
             ELSE ReadLinesTrimmingValues(lines, i + 1,
                     (SubSeq(line, 1, eq - 1) :>
                         TrimSpace(SubSeq(line, eq + 1, Len(line))))
                     @@ envVars)

\* the loop of ReadEnvFile over lines from position i, envVars being the map
\* built so far
RECURSIVE ReadLines(_, _, _)
ReadLines(lines, i, envVars) ==
    IF i > Len(lines) THEN envVars
    ELSE LET line == TrimSpace(lines[i])
             eq   == FirstIndex(line, 61)
         IN  IF line = <<>> \/ line[1] = 35 THEN ReadLines(lines, i + 1, envVars)
             ELSE IF eq = 0 THEN ReadLines(lines, i + 1, envVars)
             ELSE ReadLines(lines, i + 1,
                     (SubSeq(line, 1, eq - 1) :> SubSeq(line, eq + 1, Len(line)))
                         @@ envVars)

\* ReadEnvFile of a file that opens, content being its bytes: the map from
\* variable names to values
ReadEnvFile(content) == ReadLines(SplitLines(content), 1, <<>>)

\* extractFieldsFromEnvVars giving every field the type string
ExtractFieldsAllString(envVars, o) ==
    [i \in 1..Len(o) |->
        [EnvName |-> o[i], Type |-> "string", Value |-> envVars[o[i]]]]

\* extractFieldsFromEnvVars(envVars), the range loop visiting the variables
\* in order o
extractFieldsFromEnvVars(envVars, o) ==
    [i \in 1..Len(o) |->
        [EnvName |-> o[i],
         Type    |-> IF envVars[o[i]] = <<>> THEN "string"
                     ELSE DetectFieldType(envVars[o[i]]),
         Value   |-> envVars[o[i]]]]

----------------------------------------------------------------------------
(* Consistency checker.  A Go map is a function; ranging over it visits    *)
(* its keys in an order the runtime picks anew each time.                  *)

\* the orders in which a range loop may visit the keys in set K
Orders(K) ==
    {o \in [1..Cardinality(K) -> K] :
        \A i, j \in 1..Cardinality(K) : o[i] = o[j] => i = j}

\* the inner loop with its test inverted: the first variable that is present
RECURSIVE FirstPresent(_, _, _)
FirstPresent(envVars, vo, j) ==
    IF j > Len(vo) THEN 0
    ELSE IF vo[j] \in DOMAIN envVars THEN j
    ELSE FirstPresent(envVars, vo, j + 1)

\* the inner loop of checkEnvironmentConsistency over allVars, visited in
\* order vo from position j, for the variables envVars of one environment:
\* the position of the first variable that is missing, 0 when none is
RECURSIVE FirstMissing(_, _, _)
FirstMissing(envVars, vo, j) ==
    IF j > Len(vo) THEN 0
    ELSE IF vo[j] \notin DOMAIN envVars THEN j
    ELSE FirstMissing(envVars, vo, j + 1)

\* the outer loop, over the environments in order eo from position i, vos[e]
\* being the order of the inner loop for environment e
RECURSIVE CheckLoop(_, _, _, _)
CheckLoop(envMaps, eo, vos, i) ==
    IF i > Len(eo) THEN CheckPassed
    ELSE LET j == FirstMissing(envMaps[eo[i]], vos[eo[i]], 1)
         IN  IF j # 0
             THEN CheckFailed(vos[eo[i]][j], eo[i])
             ELSE CheckLoop(envMaps, eo, vos, i + 1)

\* every variable name of every environment
AllVarsOf(envMaps) ==
    UNION {DOMAIN envMaps[e] : e \in DOMAIN envMaps}

\* checkEnvironmentConsistency skipping the check for two environments too
CheckConsistencyUpToTwo(envMaps, eo, vos) ==
    IF Cardinality(DOMAIN envMaps) <= 2
    THEN CheckPassed
    ELSE CheckLoop(envMaps, eo, vos, 1)

\* checkEnvironmentConsistency(envMaps), the range loops visiting the
\* environments in order eo and, for environment e, allVars in order vos[e]:
\* ok (nil), or the variable and the environment the error names
checkEnvironmentConsistency(envMaps, eo, vos) ==
    IF Cardinality(DOMAIN envMaps) < 2
    THEN CheckPassed
    ELSE CheckLoop(envMaps, eo, vos, 1)

\* names of environments and of variables, values of variables
EnvNames == {S(<<"d", "e", "v">>), S(<<"p", "r", "o", "d">>), S(<<"s", "t", "g">>),
             S(<<"q", "a">>)}
VarNames == {S(<<"A">>), S(<<"B">>)}
VarValues == {S(<<"x">>), S(<<"7">>)}

\* the maps from some of the names in K to values in V
PartialMaps(K, V) == UNION {[D -> V] : D \in SUBSET K}

ChkInit ==
    /\ \E E \in SUBSET EnvNames :
          /\ Cardinality(E) <= MaxCheckEnvs
          /\ chkEnvVars \in [E -> PartialMaps(VarNames, VarValues)]
    /\ chkResult = CheckPending("none")

\* chkResult := checkEnvironmentConsistency(chkEnvVars)
CheckConsistency ==
    /\ chkResult.status = "none"
    /\ \E eo \in Orders(DOMAIN chkEnvVars) :
       \E vos \in [DOMAIN chkEnvVars -> Orders(AllVarsOf(chkEnvVars))] :
          chkResult' = checkEnvironmentConsistency(chkEnvVars, eo, vos)
    /\ UNCHANGED chkEnvVars
    /\ UNCHANGED <<obfVars, detVars, genVars, ldVars, evVars, prVars, kbVars, sdVars>>

----------------------------------------------------------------------------
(* The pseudo-random source of ObfuscateString.                            *)
(* math/rand is not part of the repository: of rand.NewSource the model    *)
(* keeps the seed normalisation (seed mod 2^31-1, zero replaced) and the   *)
(* seeding recurrence seedrand, and draws the stream from that recurrence  *)
(* instead of the additive lagged Fibonacci generator it feeds.  What the  *)
(* model relies on is that the stream is a function of the normalised seed *)
(* and the position alone.                                                 *)

\* the seed taken as it is when positive and negated when negative, without
\* the reduction modulo 2^31 - 1
SeedNormUnreduced(s) == IF s = 0 THEN 89482311 ELSE IF s < 0 THEN 0 - s ELSE s

\* rngSource.Seed: the seed is reduced modulo 2^31 - 1, and 0 is replaced
SeedNorm(s) ==
    LET m == s % 2147483647
    IN  IF m = 0 THEN 89482311 ELSE m

\* seedrand: x[n+1] = 48271 * x[n] mod (2^31 - 1), by Schrage's method
SeedRand(x) ==
    LET hi == x \div 44488
        lo == x % 44488
        y  == 48271 * lo - 3399 * hi
    IN  IF y < 0 THEN y + 2147483647 ELSE y

RECURSIVE SeedRandN(_, _)
SeedRandN(x, n) == IF n = 0 THEN x ELSE SeedRandN(SeedRand(x), n - 1)

\* the i-th draw r.Intn(1 << 32) of a generator seeded with s: a value in
\* [0, 2^32)
Intn32(s, i) ==
    LET x == SeedNorm(s)
    IN  <<SeedRandN(x, 2 * i - 1) % 65536, SeedRandN(x, 2 * i) % 65536>>

----------------------------------------------------------------------------
(* Obfuscator *)

\* ObfuscateString with the loop running over the bytes of value instead of
\* its runes
ObfuscateStringBytes(v, sd, now) ==
    LET src  == IF sd = 0 THEN now ELSE sd
        keys == [i \in 1..Len(v) |-> Intn32(src, i)]
    IN  <<keys, [i \in 1..Len(v) |-> XorWord(WordOf(v[i]), keys[i])]>>

\* ObfuscateString seeding from the clock whatever the seed
ObfuscateStringClock(v, sd, now) ==
    LET runes == Runes(v)
        keys  == [i \in 1..Len(runes) |-> Intn32(now, i)]
    IN  <<keys, [i \in 1..Len(runes) |-> XorWord(WordOf(runes[i]), keys[i])]>>

\* ObfuscateString storing the rune itself as the encrypted value
ObfuscateStringPlain(v, sd, now) ==
    LET src   == IF sd = 0 THEN now ELSE sd
        runes == Runes(v)
        keys  == [i \in 1..Len(runes) |-> Intn32(src, i)]
    IN  <<keys, [i \in 1..Len(runes) |-> WordOf(runes[i])]>>

\* ObfuscateString seeding from the seed and the length of the value
ObfuscateStringValueSeeded(v, sd, now) ==
    LET runes == Runes(v)
        src   == IF sd = 0 THEN now ELSE sd + Len(runes)
        keys  == [i \in 1..Len(runes) |-> Intn32(src, i)]
    IN  <<keys, [i \in 1..Len(runes) |-> XorWord(WordOf(runes[i]), keys[i])]>>

\* ObfuscateString(value, seed), called when the clock reads now:
\* <<keys, encryptedValues>>
ObfuscateString(v, sd, now) ==
    LET src   == IF sd = 0 THEN now ELSE sd
        runes == Runes(v)
        keys  == [i \in 1..Len(runes) |-> Intn32(src, i)]
    IN  <<keys, [i \in 1..Len(runes) |-> XorWord(WordOf(runes[i]), keys[i])]>>

\* DeobfuscateString without the comparison of the lengths, decoding the
\* positions both sequences have
DeobfuscateStringUnchecked(keys, encryptedValues) ==
    LET n == IF Len(keys) < Len(encryptedValues) THEN Len(keys)
             ELSE Len(encryptedValues)
    IN  StringOfRunes([i \in 1..n |->
                          RuneOfWord(XorWord(keys[i], encryptedValues[i]))])

\* DeobfuscateString(keys, encryptedValues)
DeobfuscateString(keys, encryptedValues) ==
    IF Len(keys) # Len(encryptedValues) THEN <<>>
    ELSE StringOfRunes([i \in 1..Len(keys) |->
                            RuneOfWord(XorWord(keys[i], encryptedValues[i]))])

----------------------------------------------------------------------------
(* GenerateFromConfigFile: load, check, obfuscate, emit *)

\* the *ObfuscationResult of a field that needs no obfuscation
NilResult == [isNil |-> TRUE, KeyName |-> <<>>, ValueName |-> <<>>,
              Key |-> <<>>, Value |-> <<>>]

\* generateObfuscatedField obfuscating a field of any type
GenerateObfuscatedFieldOfAnyType(fieldName, fieldType, v, sd, now) ==
    LET r == ObfuscateString(v, sd, now)
    IN  [isNil |-> FALSE,
         KeyName   |-> S(<<"_", "e", "n", "v", "i", "e", "d", "k", "e", "y">>)
                           \o fieldName,
         ValueName |-> S(<<"_", "e", "n", "v", "i", "e", "d", "d", "a", "t", "a">>)
                           \o fieldName,
         Key |-> r[1], Value |-> r[2]]

\* generateObfuscatedField(fieldName, fieldType, value, seed), called when
\* the clock reads now
generateObfuscatedField(fieldName, fieldType, v, sd, now) ==
    IF fieldType \in {"string", "float64"}
    THEN LET r == ObfuscateString(v, sd, now)
         IN  [isNil |-> FALSE,
              KeyName   |-> S(<<"_", "e", "n", "v", "i", "e", "d", "k", "e", "y">>)
                                \o fieldName,
              ValueName |-> S(<<"_", "e", "n", "v", "i", "e", "d", "d", "a", "t", "a">>)
                                \o fieldName,
              Key |-> r[1], Value |-> r[2]]
    ELSE NilResult

\* strings.ToUpper, on ASCII names
ToUpper(s) == [i \in 1..Len(s) |-> IF s[i] >= 97 /\ s[i] <= 122 THEN s[i] - 32 ELSE s[i]]

\* the name of a constant without the environment in front
ConstNameUnqualified(envName, name) == name

\* fmt.Sprintf("%s_%s", strings.ToUpper(envName), name)
ConstName(envName, name) == ToUpper(envName) \o <<95>> \o name

\* the interface block of generateCodeDirectly
InterfaceDecl(allFields) ==
    [kind |-> "interface",
     methods |-> [i \in 1..Len(allFields) |->
                     [name |-> S(<<"G", "e", "t">>) \o allFields[i].EnvName,
                      type |-> allFields[i].Type]]]

\* the constants of one environment, its Obfuscated map being visited in
\* order oo from position i
RECURSIVE ConstDecls(_, _, _, _)
ConstDecls(envName, obfuscated, oo, i) ==
    IF i > Len(oo) THEN <<>>
    ELSE LET fieldName == oo[i]
             o == obfuscated[fieldName]
         IN  (IF o.isNil THEN <<>>
              ELSE <<[kind |-> "var", name |-> ConstName(envName, o.KeyName),
                      ints |-> o.Key]>>
                   \o (IF o.ValueName # fieldName
                       THEN <<[kind |-> "var",
                               name |-> ConstName(envName, o.ValueName),
                               ints |-> o.Value]>>
                       ELSE <<>>))
             \o ConstDecls(envName, obfuscated, oo, i + 1)

\* the expression the constructor stores in a field
FieldInit(envName, envData, field) ==
    LET name == field.EnvName
        has  == name \in DOMAIN envData.Obfuscated
        o    == envData.Obfuscated[name]
    IN  IF has /\ field.Type \in {"string", "float64"}
        THEN [field |-> name,
              fn    |-> IF field.Type = "string" THEN "DeobfuscateString"
                        ELSE "ParseFloat(DeobfuscateString)",
              key   |-> ConstName(envName, o.KeyName),
              data  |-> ConstName(envName, o.ValueName),
              lit   |-> <<>>]
        ELSE [field |-> name,
              fn    |-> IF field.Type = "int" THEN "ParseInt"
                        ELSE IF field.Type = "bool" THEN "ParseBool"
                        ELSE "literal",
              key   |-> <<>>, data |-> <<>>,
              lit   |-> field.Value]

\* what generateCodeDirectly writes for one environment: constants, struct,
\* constructor, getters
EnvDecls(envName, envData, oo) ==
    LET fields == envData.Fields
        struct == envData.StructName \o S(<<"C", "o", "n", "f", "i", "g">>)
    IN  ConstDecls(envName, envData.Obfuscated, oo, 1)
        \o <<[kind |-> "struct", name |-> struct,
              fields |-> [i \in 1..Len(fields) |->
                             [name |-> fields[i].EnvName, type |-> fields[i].Type]]],
             [kind |-> "func", name |-> S(<<"N", "e", "w">>) \o struct,
              inits |-> [i \in 1..Len(fields) |->
                            FieldInit(envName, envData, fields[i])]]>>
        \o [i \in 1..Len(fields) |->
               [kind |-> "method", recv |-> struct,
                name |-> S(<<"G", "e", "t">>) \o fields[i].EnvName,
                type |-> fields[i].Type]]

\* the loop of generateCodeDirectly over the environments in order eo from
\* position i, oos[e] being the order its Obfuscated map is visited in
RECURSIVE AllEnvDecls(_, _, _, _)
AllEnvDecls(environments, eo, oos, i) ==
    IF i > Len(eo) THEN <<>>
    ELSE EnvDecls(eo[i], environments[eo[i]], oos[eo[i]])
         \o AllEnvDecls(environments, eo, oos, i + 1)

\* generateCodeDirectly: the declarations written to the file, in order
generateCodeDirectly(data, eo, oos) ==
    <<[kind |-> "package", name |-> data.PackageName],
      InterfaceDecl(data.AllFields)>>
    \o AllEnvDecls(data.Environments, eo, oos, 1)

\* what the environment files are made of
LineA7    == S(<<"A", "=", "7">>)
LineAx    == S(<<"A", "=", "x">>) \o <<226, 130, 172>>
LineAbad  == S(<<"A", "=", "x">>) \o <<255>>
LineAtrue == S(<<" ", "A", "=", "t", "r", "u", "e", "\r">>)
LineB15   == S(<<"B", "=", "1", ".", "5">>)
LineBnone == S(<<"B", "=">>)
LineB1    == S(<<"B", "=", "1">>)
LineNote  == S(<<"#", " ", "B", "=", "x">>)

\* lines joined by newlines
RECURSIVE JoinLines(_)
JoinLines(ls) ==
    IF ls = <<>> THEN <<>>
    ELSE IF Len(ls) = 1 THEN ls[1]
    ELSE ls[1] \o <<10>> \o JoinLines(Tail(ls))

\* an environment file the configuration names: one that opens, with its
\* content, or one that does not
FileOf(ls) == [exists |-> TRUE, content |-> JoinLines(ls)]
NoFile == [exists |-> FALSE, content |-> <<>>]

EnvFiles ==
    {FileOf(<<LineA7, LineB15>>),
     FileOf(<<LineNote, LineAx, LineBnone, <<>>>>),
     FileOf(<<LineB1, LineAtrue>>),
     FileOf(<<LineAbad, LineB15>>),
     FileOf(<<LineA7>>),
     FileOf(<<>>),
     NoFile}

\* the sets of environment names a configuration has
EnvNameSets ==
    {{}, {S(<<"d", "e", "v">>)},
     {S(<<"d", "e", "v">>), S(<<"p", "r", "o", "d">>)},
     {S(<<"p", "r", "o", "d">>), S(<<"s", "t", "g">>)}}

\* EnvironmentConfig.StructName of an environment: its name with a capital
StructNameOf(envName) == ToUpper(SubSeq(envName, 1, 1)) \o Tail(envName)

GenInit ==
    /\ \E E \in EnvNameSets : cfgFiles \in [E -> EnvFiles]
    /\ cfgSeed \in {0, 12345}
    /\ gpc = "start"
    /\ allEnvVars = <<>> /\ mergedData = NoData /\ gerr = NoError
    /\ gclock = 1 /\ obfCalls = 0
    /\ outFile \in {Absent, Stale}
    /\ runs = 1 /\ prevOut = Absent

\* GenerateFromConfigFile, the loop reading every environment file: all are
\* read, or the function returns at the first one that does not open
GenLoad ==
    /\ gpc = "start"
    /\ \/ /\ \A e \in DOMAIN cfgFiles : cfgFiles[e].exists
          /\ allEnvVars' = [e \in DOMAIN cfgFiles |-> ReadEnvFile(cfgFiles[e].content)]
          /\ gpc' = "loaded"
          /\ UNCHANGED gerr
       \/ /\ \E e \in DOMAIN cfgFiles :
                /\ ~cfgFiles[e].exists
                /\ gerr' = [kind |-> "read", envName |-> e, varName |-> <<>>]
          /\ gpc' = "done"
          /\ UNCHANGED allEnvVars
    /\ UNCHANGED <<cfgFiles, cfgSeed, mergedData, gclock, obfCalls, outFile,
                   runs, prevOut>>
    /\ UNCHANGED <<obfVars, detVars, chkVars, ldVars, evVars, prVars, kbVars, sdVars>>

\* the consistency check run with its error dropped: generation goes on
GenCheckIgnored ==
    /\ gpc = "loaded"
    /\ gpc' = "checked"
    /\ UNCHANGED <<cfgFiles, cfgSeed, allEnvVars, mergedData, gerr, gclock, obfCalls,
                   outFile, runs, prevOut>>
    /\ UNCHANGED <<obfVars, detVars, chkVars, ldVars, evVars, prVars, kbVars, sdVars>>

\* GenerateFromConfigFile, the consistency check
GenCheck ==
    /\ gpc = "loaded"
    /\ \E eo \in Orders(DOMAIN allEnvVars) :
       \E vos \in [DOMAIN allEnvVars -> Orders(AllVarsOf(allEnvVars))] :
          LET r == checkEnvironmentConsistency(allEnvVars, eo, vos)
          IN  IF r.status = "ok"
              THEN gpc' = "checked" /\ UNCHANGED gerr
              ELSE /\ gpc' = "done"
                   /\ gerr' = [kind |-> "inconsistent", envName |-> r.envName,
                               varName |-> r.varName]
    /\ UNCHANGED <<cfgFiles, cfgSeed, allEnvVars, mergedData, gclock, obfCalls,
                   outFile, runs, prevOut>>
    /\ UNCHANGED <<obfVars, detVars, chkVars, ldVars, evVars, prVars, kbVars, sdVars>>

\* the fields ObfuscateString is called for, in the order of the calls: the
\* environments in order eo, the fields of e in order fo[e]
RECURSIVE ObfuscateCalls(_, _, _, _, _)
ObfuscateCalls(envMaps, eo, fo, i, j) ==
    IF i > Len(eo) THEN <<>>
    ELSE IF j > Len(fo[eo[i]]) THEN ObfuscateCalls(envMaps, eo, fo, i + 1, 1)
    ELSE LET f == extractFieldsFromEnvVars(envMaps[eo[i]], fo[eo[i]])[j]
         IN  (IF f.Value # <<>> /\ f.Type \in {"string", "float64"}
              THEN <<<<eo[i], f.EnvName>>>> ELSE <<>>)
             \o ObfuscateCalls(envMaps, eo, fo, i, j + 1)

\* the orders in which each environment's variables may be visited
FieldOrders(envMaps) ==
    {fo \in [DOMAIN envMaps -> UNION {Orders(DOMAIN envMaps[e]) : e \in DOMAIN envMaps}] :
        \A e \in DOMAIN envMaps : fo[e] \in Orders(DOMAIN envMaps[e])}

\* the readings of the clock by n calls, none earlier than from
ClockReadings(n, from) ==
    {t \in [1..n -> from..MaxClock] : \A i \in 1..(n - 1) : t[i] <= t[i + 1]}

\* the obfuscated data of field f of environment e: generateObfuscatedField
\* called at the reading of the clock that the call has among calls
ObfuscatedField(f, e, sd, calls, times, clock) ==
    generateObfuscatedField(f.EnvName, f.Type, f.Value, sd,
        IF f.Type \in {"string", "float64"}
        THEN times[CHOOSE k \in 1..Len(calls) : calls[k] = <<e, f.EnvName>>]
        ELSE clock)

\* the map obfuscated of environment e with fields fs: an entry for every
\* field with a non-empty value
ObfuscatedFields(fs, e, sd, calls, times, clock) ==
    LET with == {i \in 1..Len(fs) : fs[i].Value # <<>>}
    IN  [name \in {fs[i].EnvName : i \in with} |->
            ObfuscatedField(fs[CHOOSE i \in with : fs[i].EnvName = name],
                            e, sd, calls, times, clock)]

\* the entry of mergedData.Environments for environment e with fields fs
EnvironmentData(fs, e, sd, calls, times, clock) ==
    [StructName |-> StructNameOf(e),
     Fields     |-> fs,
     Obfuscated |-> ObfuscatedFields(fs, e, sd, calls, times, clock)]

\* mergedData is built with the reference fields in order ao, the variables
\* of each environment in order fo, and the ObfuscateString calls that this
\* makes, each at a reading of the clock
PrepareWith(ref, ao, fo, calls) ==
    \E times \in IF cfgSeed = 0 THEN ClockReadings(Len(calls), gclock)
                 ELSE {[k \in 1..Len(calls) |-> gclock]} :
        /\ mergedData' =
               [PackageName  |-> S(<<"c", "o", "n", "f", "i", "g">>),
                RandomSeed   |-> cfgSeed,
                Environments |->
                   [e \in DOMAIN cfgFiles |->
                       EnvironmentData(
                           extractFieldsFromEnvVars(allEnvVars[e], fo[e]),
                           e, cfgSeed, calls, times, gclock)],
                AllFields    |-> extractFieldsFromEnvVars(ref, ao)]
        /\ obfCalls' = obfCalls + Len(calls)
        /\ gclock' = IF Len(calls) > 0 THEN times[Len(calls)] ELSE gclock

\* the variables of the reference environment dev, none when there is no dev
ReferenceVars(envMaps) ==
    IF S(<<"d", "e", "v">>) \in DOMAIN envMaps THEN envMaps[S(<<"d", "e", "v">>)]
    ELSE <<>>

\* GenerateFromConfigFile, preparing mergedData: the reference fields, and
\* for every environment its fields and their obfuscated data
GenPrepare ==
    /\ gpc = "checked"
    /\ \E ao \in Orders(DOMAIN ReferenceVars(allEnvVars)) :
       \E eo \in Orders(DOMAIN allEnvVars) :
       \E fo \in FieldOrders(allEnvVars) :
          PrepareWith(ReferenceVars(allEnvVars), ao, fo,
                      ObfuscateCalls(allEnvVars, eo, fo, 1, 1))
    /\ gpc' = "prepared"
    /\ UNCHANGED <<cfgFiles, cfgSeed, allEnvVars, gerr, outFile, runs, prevOut>>
    /\ UNCHANGED <<obfVars, detVars, chkVars, ldVars, evVars, prVars, kbVars, sdVars>>

\* GenerateFromConfigFile, generateMergedFile: the output file is created
\* (truncated) and generateCodeDirectly writes it
GenWrite ==
    /\ gpc = "prepared"
    /\ \E eo \in Orders(DOMAIN mergedData.Environments) :
       \E oos \in {f \in [DOMAIN mergedData.Environments ->
                            UNION {Orders(DOMAIN mergedData.Environments[e].Obfuscated) :
                                      e \in DOMAIN mergedData.Environments}] :
                      \A e \in DOMAIN mergedData.Environments :
                          f[e] \in Orders(DOMAIN mergedData.Environments[e].Obfuscated)} :
          outFile' = [exists |-> TRUE,
                      content |-> generateCodeDirectly(mergedData, eo, oos)]
    /\ gpc' = "done"
    /\ UNCHANGED <<cfgFiles, cfgSeed, allEnvVars, mergedData, gerr, gclock,
                   obfCalls, runs, prevOut>>
    /\ UNCHANGED <<obfVars, detVars, chkVars, ldVars, evVars, prVars, kbVars, sdVars>>

GenNext == GenLoad \/ GenCheck \/ GenPrepare \/ GenWrite

\* before a run of GenerateFromConfigFile, nothing else under way
Init == GenInit /\ ObfIdle /\ DetIdle /\ ChkIdle /\ LoadIdle /\ EnvIdle
        /\ ParseIdle /\ KeyIdle /\ SeedIdle

Spec == Init /\ [][GenNext]_vars

\* GenerateFromConfigFile is run a second time on the same configuration and
\* the same files, after a first run that succeeded
Rerun ==
    /\ gpc = "done" /\ gerr = NoError /\ runs = 1
    /\ prevOut' = outFile
    /\ runs' = 2
    /\ gpc' = "start"
    /\ allEnvVars' = <<>> /\ mergedData' = NoData
    /\ UNCHANGED <<cfgFiles, cfgSeed, gerr, gclock, obfCalls, outFile>>
    /\ UNCHANGED <<obfVars, detVars, chkVars, ldVars, evVars, prVars, kbVars, sdVars>>

TwiceInit == GenInit /\ cfgSeed # 0 /\ ObfIdle /\ DetIdle /\ ChkIdle /\ LoadIdle /\ EnvIdle
        /\ ParseIdle /\ KeyIdle /\ SeedIdle

TwiceNext == GenLoad \/ GenCheck \/ GenPrepare \/ GenWrite \/ Rerun

SpecTwice == TwiceInit /\ [][TwiceNext]_vars

\* what the obfuscated values are made of: ASCII, a control character,
\* U+00E9 (C3 A9), U+20AC (E2 82 AC), U+1F600 (F0 9F 98 80), a byte no
\* encoding contains (FF) and a lead byte without its continuation (C3)
ValueUnits ==
    {<<65>>, <<10>>, <<195, 169>>, <<226, 130, 172>>, <<240, 159, 152, 128>>,
     <<255>>, <<195>>}

\* the seeds: 0 (seed from the clock), small, the tests' 12345, and a seed
\* congruent to 1 modulo 2^31 - 1
Seeds == {0, 1, 12345, -2147483646}

ObfInit ==
    /\ value \in TextsUpTo(ValueUnits, MaxValueUnits)
    /\ seed \in Seeds
    /\ now1 = 0 /\ now2 = 0
    /\ keys1 = <<>> /\ cipher1 = <<>> /\ decoded = <<>>
    /\ keys2 = <<>> /\ cipher2 = <<>>
    /\ opc = "start"

\* keys, encryptedValues := ObfuscateString(value, seed)
ObfuscateFirst ==
    /\ opc = "start"
    /\ \E now \in 1..MaxClock :
          LET r == ObfuscateString(value, seed, now)
          IN  /\ keys1' = r[1] /\ cipher1' = r[2]
              /\ now1' = now
    /\ opc' = "obfuscated"
    /\ UNCHANGED <<value, seed, decoded, now2, keys2, cipher2>>
    /\ UNCHANGED <<detVars, chkVars, genVars, ldVars, evVars, prVars, kbVars, sdVars>>

\* decrypted := DeobfuscateString(keys, encryptedValues)
Deobfuscate1 ==
    /\ opc = "obfuscated"
    /\ decoded' = DeobfuscateString(keys1, cipher1)
    /\ opc' = "decoded"
    /\ UNCHANGED <<value, seed, now1, keys1, cipher1, now2, keys2, cipher2>>
    /\ UNCHANGED <<detVars, chkVars, genVars, ldVars, evVars, prVars, kbVars, sdVars>>

\* a second call ObfuscateString(value, seed), no earlier than the first
ObfuscateSecond ==
    /\ opc = "decoded"
    /\ \E now \in now1..MaxClock :
          LET r == ObfuscateString(value, seed, now)
          IN  /\ keys2' = r[1] /\ cipher2' = r[2]
              /\ now2' = now
    /\ opc' = "again"
    /\ UNCHANGED <<value, seed, now1, keys1, cipher1, decoded>>
    /\ UNCHANGED <<detVars, chkVars, genVars, ldVars, evVars, prVars, kbVars, sdVars>>

ObfNext == ObfuscateFirst \/ Deobfuscate1 \/ ObfuscateSecond

ObfStart == ObfInit /\ DetIdle /\ ChkIdle /\ GenIdle /\ LoadIdle /\ EnvIdle
        /\ ParseIdle /\ KeyIdle /\ SeedIdle

SpecObf == ObfStart /\ [][ObfNext]_vars

\* well-formed UTF-8 (RFC 3629): a concatenation of encodings of Unicode
\* scalar values
RECURSIVE WellFormedUTF8(_)
WellFormedUTF8(s) ==
    LET n == Len(s)
        Rest(k) == WellFormedUTF8(SubSeq(s, k + 1, n))
        In(i, lo, hi) == n >= i /\ s[i] >= lo /\ s[i] <= hi
    IN  \/ n = 0
        \/ In(1, 0, 127) /\ Rest(1)
        \/ In(1, 194, 223) /\ In(2, 128, 191) /\ Rest(2)
        \/ In(1, 224, 224) /\ In(2, 160, 191) /\ In(3, 128, 191) /\ Rest(3)
        \/ In(1, 225, 236) /\ In(2, 128, 191) /\ In(3, 128, 191) /\ Rest(3)
        \/ In(1, 237, 237) /\ In(2, 128, 159) /\ In(3, 128, 191) /\ Rest(3)
        \/ In(1, 238, 239) /\ In(2, 128, 191) /\ In(3, 128, 191) /\ Rest(3)
        \/ In(1, 240, 240) /\ In(2, 144, 191) /\ In(3, 128, 191)
              /\ In(4, 128, 191) /\ Rest(4)
        \/ In(1, 241, 243) /\ In(2, 128, 191) /\ In(3, 128, 191)
              /\ In(4, 128, 191) /\ Rest(4)
        \/ In(1, 244, 244) /\ In(2, 128, 143) /\ In(3, 128, 191)
              /\ In(4, 128, 191) /\ Rest(4)

\* C1: for every well-formed UTF-8 value and every seed, zero included,
\* DeobfuscateString(ObfuscateString(value, seed)) is exactly value.
C1_RoundTrip ==
    (opc \in {"decoded", "again"} /\ WellFormedUTF8(value)) => decoded = value

\* C1 witness: a value with a four-byte, a two-byte and a control character
\* went through both functions with seed 0 and came back unchanged.
C1_Witness ==
    /\ opc = "decoded" /\ seed = 0
    /\ value = <<240, 159, 152, 128, 195, 169, 10>>
    /\ WellFormedUTF8(value)
    /\ Len(keys1) = 3
    /\ decoded = value

\* C10: for a fixed nonzero seed two calls of ObfuscateString with the same
\* (value, seed) return identical key sequences and identical cipher
\* sequences, whenever the calls are made.
C10_Deterministic ==
    (opc = "again" /\ seed # 0) => (keys2 = keys1 /\ cipher2 = cipher1)

\* C10 witness: two calls at different readings of the clock, with a nonzero
\* seed and a non-empty value, gave the same non-empty sequences.
C10_Witness ==
    /\ opc = "again" /\ seed = 12345 /\ now2 > now1
    /\ Len(keys1) = 3
    /\ keys2 = keys1 /\ cipher2 = cipher1

DetNext == Detect

DetStart == DetInit /\ ObfIdle /\ ChkIdle /\ GenIdle /\ LoadIdle /\ EnvIdle
        /\ ParseIdle /\ KeyIdle /\ SeedIdle

SpecDet == DetStart /\ [][DetNext]_vars

IsSpace(b) == b \in {9, 10, 11, 12, 13, 32}

\* an optional '-' followed by one or more decimal digits
IsPlainInteger(s) ==
    LET d == IF Len(s) >= 1 /\ s[1] = 45 THEN Tail(s) ELSE s
    IN  Len(d) >= 1 /\ \A i \in 1..Len(d) : IsDigit(d[i])

\* an optional '-', digits, a point, digits
IsPlainDecimal(s) ==
    LET d == IF Len(s) >= 1 /\ s[1] = 45 THEN Tail(s) ELSE s
    IN  \E k \in 2..(Len(d) - 1) :
            /\ d[k] = 46
            /\ \A i \in (1..Len(d)) \ {k} : IsDigit(d[i])

\* C9: DetectFieldType checks the untrimmed text for Bool first, then Int,
\* then Float, else String: "0" and "1" are Bool, any other short run of
\* digits with an optional '-' is Int ("007", "-456"), digits around a point
\* are Float ("-0.5", "1.23E+02"), and the empty text and every text with a
\* whitespace character in it are String.
C9_Precedence ==
    ftype # "none" =>
        /\ raw \in {S(<<"0">>), S(<<"1">>)} => ftype = "bool"
        /\ (IsPlainInteger(raw) /\ Len(raw) <= 18 /\ raw \notin {S(<<"0">>), S(<<"1">>)})
              => ftype = "int"
        /\ IsPlainDecimal(raw) => ftype = "float64"
        /\ raw \in {S(<<"0", "0", "7">>), S(<<"-", "4", "5", "6">>)} => ftype = "int"
        /\ raw \in {S(<<"-", "0", ".", "5">>),
                    S(<<"1", ".", "2", "3", "E", "+", "0", "2">>)} => ftype = "float64"
        /\ (raw = <<>> \/ \E i \in 1..Len(raw) : IsSpace(raw[i])) => ftype = "string"

\* C9 witness: the whitespace-padded number "  123  " was classified, as a
\* String.
C9_Witness ==
    /\ raw = S(<<" ", " ", "1", "2", "3", " ", " ">>)
    /\ ftype = "string"

ChkNext == CheckConsistency

ChkStart == ChkInit /\ ObfIdle /\ DetIdle /\ GenIdle /\ LoadIdle /\ EnvIdle
        /\ ParseIdle /\ KeyIdle /\ SeedIdle

SpecChk == ChkStart /\ [][ChkNext]_vars

\* every environment defines exactly the same set of variable names
SameVariableNames(envMaps) ==
    \A e1, e2 \in DOMAIN envMaps : DOMAIN envMaps[e1] = DOMAIN envMaps[e2]

\* C2: checkEnvironmentConsistency succeeds if and only if fewer than two
\* environments are supplied or every environment defines the same set of
\* variable names; the values of the variables play no part.
C2_ConsistentIff ==
    chkResult.status \in {"ok", "error"} =>
        (chkResult.status = "ok" <=> \/ Cardinality(DOMAIN chkEnvVars) < 2
                          \/ SameVariableNames(chkEnvVars))

\* C2 witness: two environments with the same names and different values
\* passed the check.
C2_Witness ==
    /\ chkResult.status = "ok"
    /\ Cardinality(DOMAIN chkEnvVars) = 2
    /\ \E e1, e2 \in DOMAIN chkEnvVars :
          /\ DOMAIN chkEnvVars[e1] = VarNames /\ DOMAIN chkEnvVars[e2] = VarNames
          /\ chkEnvVars[e1] # chkEnvVars[e2]

\* C3: whenever checkEnvironmentConsistency fails, the variable it names is
\* absent from the environment it names and present in another one; with
\* two environments of which one has a single extra variable, it names
\* exactly that variable and the environment lacking it.
C3_RealViolation ==
    (chkResult.status = "error") =>
        /\ chkResult.envName \in DOMAIN chkEnvVars
        /\ chkResult.varName \notin DOMAIN chkEnvVars[chkResult.envName]
        /\ \E e \in DOMAIN chkEnvVars \ {chkResult.envName} :
              chkResult.varName \in DOMAIN chkEnvVars[e]
        /\ \A e1, e2 \in DOMAIN chkEnvVars : \A v \in VarNames :
              (/\ DOMAIN chkEnvVars = {e1, e2} /\ e1 # e2
               /\ DOMAIN chkEnvVars[e1] = DOMAIN chkEnvVars[e2] \cup {v}
               /\ v \notin DOMAIN chkEnvVars[e2])
              => (chkResult.varName = v /\ chkResult.envName = e2)

\* C3 witness: of two environments one has a single extra variable, and the
\* check failed naming it and the other environment.
C3_Witness ==
    /\ chkResult.status = "error"
    /\ DOMAIN chkEnvVars = {S(<<"d", "e", "v">>), S(<<"p", "r", "o", "d">>)}
    /\ DOMAIN chkEnvVars[S(<<"d", "e", "v">>)] = VarNames
    /\ DOMAIN chkEnvVars[S(<<"p", "r", "o", "d">>)] = {S(<<"A">>)}
    /\ chkResult.varName = S(<<"B">>)
    /\ chkResult.envName = S(<<"p", "r", "o", "d">>)

Dev == S(<<"d", "e", "v">>)
Prod == S(<<"p", "r", "o", "d">>)

\* the run is over and the output file was written
Generated == gpc = "done" /\ gerr = NoError

\* C4: in GenerateFromConfigFile no step of loading or checking writes the
\* output file or obfuscates a value; a step that does either starts with
\* every environment file loaded and the environments consistent; and a run
\* that ends in an error (a file that cannot be read, an inconsistency) ends
\* there, with the output file as it was and no value obfuscated.
C4_ChecksBeforeOutput ==
    [][/\ gpc \in {"start", "loaded"} => (outFile' = outFile /\ obfCalls' = obfCalls)
       /\ (outFile' # outFile \/ obfCalls' # obfCalls) =>
             /\ DOMAIN allEnvVars = DOMAIN cfgFiles
             /\ \A e \in DOMAIN cfgFiles : cfgFiles[e].exists
             /\ Cardinality(DOMAIN allEnvVars) < 2 \/ SameVariableNames(allEnvVars)
       /\ gerr' # NoError =>
             (gpc' = "done" /\ outFile' = outFile /\ obfCalls' = 0)]_vars

\* C4 witness: two environments with different variables; the run ended with
\* the inconsistency error, the earlier output file untouched and nothing
\* obfuscated.
C4_Witness ==
    /\ gpc = "done" /\ gerr.kind = "inconsistent"
    /\ DOMAIN cfgFiles = {Dev, Prod}
    /\ outFile = Stale /\ obfCalls = 0

\* the declarations of kind k in the output
DeclsOf(k) == {i \in 1..Len(outFile.content) : outFile.content[i].kind = k}

\* C5: after a successful generation every environment's record has, for
\* every accessor Get<F> of ConfigInterface, an accessor Get<F> of the same
\* return type.
C5_AccessorContract ==
    Generated =>
        \A i \in DeclsOf("interface") :
        \A k \in 1..Len(outFile.content[i].methods) :
        \A e \in DOMAIN cfgFiles :
            \E j \in DeclsOf("method") :
                /\ outFile.content[j].recv
                      = StructNameOf(e) \o S(<<"C", "o", "n", "f", "i", "g">>)
                /\ outFile.content[j].name = outFile.content[i].methods[k].name
                /\ outFile.content[j].type = outFile.content[i].methods[k].type

\* C6: two runs on the same configuration and files, with the same nonzero
\* seed, write the same output.
C6_SameOutput ==
    (runs = 2 /\ Generated /\ cfgSeed # 0) => outFile = prevOut

\* the expression the constructor of environment e stores in field name
InitOf(e, name) ==
    LET doc  == outFile.content
        ctor == CHOOSE i \in DeclsOf("func") :
                    doc[i].name = S(<<"N", "e", "w">>) \o StructNameOf(e)
                                     \o S(<<"C", "o", "n", "f", "i", "g">>)
        k    == CHOOSE k \in 1..Len(doc[ctor].inits) : doc[ctor].inits[k].field = name
    IN  doc[ctor].inits[k]

\* the value of the emitted variable called name
VarOf(name) ==
    outFile.content[CHOOSE i \in DeclsOf("var") : outFile.content[i].name = name].ints

\* what the emitted constructor of environment e computes for field name
Reconstructed(e, name) ==
    LET x == InitOf(e, name)
    IN  CASE x.fn = "DeobfuscateString" ->
                [type |-> "string",
                 text |-> DeobfuscateString(VarOf(x.key), VarOf(x.data)),
                 int |-> ZeroInt, bool |-> FALSE]
          [] x.fn = "ParseFloat(DeobfuscateString)" ->
                [type |-> "float64",
                 text |-> DeobfuscateString(VarOf(x.key), VarOf(x.data)),
                 int |-> ZeroInt, bool |-> FALSE]
          [] x.fn = "ParseInt" ->
                [type |-> "int", text |-> <<>>, int |-> ParseInt(x.lit), bool |-> FALSE]
          [] x.fn = "ParseBool" ->
                [type |-> "bool", text |-> <<>>, int |-> ZeroInt,
                 bool |-> ParseBool(x.lit)]
          [] OTHER ->
                [type |-> "string", text |-> x.lit, int |-> ZeroInt, bool |-> FALSE]

\* the digits of a text of decimal digits, the leading zeros left out
RECURSIVE SignificantDigits(_)
SignificantDigits(t) ==
    IF t = <<>> THEN <<>>
    ELSE IF t[1] = 48 THEN SignificantDigits(Tail(t))
    ELSE [i \in 1..Len(t) |-> t[i] - 48]

\* the number a text of decimal digits with an optional sign stands for
DecimalNumber(t) ==
    LET signed == t # <<>> /\ t[1] \in {43, 45}
        d      == SignificantDigits(IF signed THEN Tail(t) ELSE t)
    IN  [neg |-> signed /\ t[1] = 45 /\ d # <<>>, digits |-> d]

\* the value a field of the given type and raw text stands for: the text
\* itself for a String and for a Float (which the constructor then parses),
\* the number for an Int, the truth value for a Bool
Original(type, text) ==
    CASE type = "int" -> [type |-> "int", text |-> <<>>, int |-> DecimalNumber(text),
                          bool |-> FALSE]
      [] type = "bool" -> [type |-> "bool", text |-> <<>>,
                           int |-> [neg |-> FALSE, digits |-> <<>>],
                           bool |-> LowerAll(text) \in {S(<<"t", "r", "u", "e">>),
                                                        S(<<"t">>), S(<<"1">>)}]
      [] OTHER -> [type |-> type, text |-> text,
                   int |-> [neg |-> FALSE, digits |-> <<>>], bool |-> FALSE]

\* the fields environment e was loaded with
LoadedFields(e) == mergedData.Environments[e].Fields

\* C7 as stated: for every field loaded from an environment file the value
\* the emitted constructor reconstructs equals the original.
C7_ReconstructsEveryField ==
    Generated =>
        \A e \in DOMAIN cfgFiles : \A i \in 1..Len(LoadedFields(e)) :
            LET f == LoadedFields(e)[i]
            IN  Reconstructed(e, f.EnvName) = Original(f.Type, f.Value)

\* C7, amended: for every field whose raw value is well-formed UTF-8 the
\* value the emitted constructor reconstructs equals the original: the text
\* for a String, the text handed to ParseFloat for a Float, the integer for
\* an Int, the truth value for a Bool.
C7_ReconstructsWellFormed ==
    Generated =>
        \A e \in DOMAIN cfgFiles : \A i \in 1..Len(LoadedFields(e)) :
            LET f == LoadedFields(e)[i]
            IN  WellFormedUTF8(f.Value) =>
                    Reconstructed(e, f.EnvName) = Original(f.Type, f.Value)

\* C7 witness: dev has an Int and a Float, prod a String with a three-byte
\* character and an empty value; with seed 0 the constructors give 7, the
\* text 1.5 to parse, the String back and the empty String.
C7_Witness ==
    /\ Generated /\ cfgSeed = 0
    /\ cfgFiles = (Dev :> FileOf(<<LineA7, LineB15>>))
                  @@ (Prod :> FileOf(<<LineNote, LineAx, LineBnone, <<>>>>))
    /\ Reconstructed(Dev, S(<<"A">>)).int = [neg |-> FALSE, digits |-> <<7>>]
    /\ Reconstructed(Dev, S(<<"B">>)) =
          [type |-> "float64", text |-> S(<<"1", ".", "5">>),
           int |-> [neg |-> FALSE, digits |-> <<>>], bool |-> FALSE]
    /\ Reconstructed(Prod, S(<<"A">>)).text = S(<<"x">>) \o <<226, 130, 172>>
    /\ Reconstructed(Prod, S(<<"B">>)).text = <<>>

\* C8: ConfigInterface lists one accessor Get<FieldName>, with the field's
\* type, for every field of a reference environment among those configured,
\* whatever their names.
C8_InterfaceOfReference ==
    (Generated /\ DOMAIN cfgFiles # {}) =>
        \E e \in DOMAIN cfgFiles :
        \A i \in DeclsOf("interface") :
            {<<outFile.content[i].methods[k].name, outFile.content[i].methods[k].type>> :
                k \in 1..Len(outFile.content[i].methods)}
            = {<<S(<<"G", "e", "t">>) \o LoadedFields(e)[k].EnvName,
                 LoadedFields(e)[k].Type>> : k \in 1..Len(LoadedFields(e))}

----------------------------------------------------------------------------
(* DeobfuscateString on sequences of any origin *)

\* ints in [0, 2^32) a caller may hand over: 0, 'H', 'e' and keys with high
\* bits set
GivenWords == {<<0, 0>>, <<0, 72>>, <<0, 101>>, <<1, 226>>, <<65535, 65535>>}

RECURSIVE WordSeqsUpTo(_)
WordSeqsUpTo(n) ==
    IF n = 0 THEN {<<>>}
    ELSE LET shorter == WordSeqsUpTo(n - 1)
         IN  shorter \cup {Append(q, w) : q \in shorter, w \in GivenWords}

\* a caller holds a key sequence and a cipher sequence
DeobInit ==
    /\ keys1 \in WordSeqsUpTo(MaxWords)
    /\ cipher1 \in WordSeqsUpTo(MaxWords)
    /\ value = <<>> /\ seed = 0 /\ now1 = 0 /\ now2 = 0
    /\ decoded = <<>> /\ keys2 = <<>> /\ cipher2 = <<>>
    /\ opc = "given"
    /\ DetIdle /\ ChkIdle /\ GenIdle /\ LoadIdle /\ EnvIdle /\ ParseIdle /\ KeyIdle /\ SeedIdle

\* result := DeobfuscateString(keys, encryptedValues)
DeobfuscateGiven ==
    /\ opc = "given"
    /\ decoded' = DeobfuscateString(keys1, cipher1)
    /\ opc' = "returned"
    /\ UNCHANGED <<value, seed, now1, keys1, cipher1, now2, keys2, cipher2>>
    /\ UNCHANGED <<detVars, chkVars, genVars, ldVars, evVars, prVars, kbVars, sdVars>>

DeobNext == DeobfuscateGiven

SpecDeob == DeobInit /\ [][DeobNext]_vars

\* C11: whenever the key sequence and the cipher sequence have different
\* lengths DeobfuscateString returns the empty string.
C11_MismatchGivesEmpty ==
    (opc = "returned" /\ Len(keys1) # Len(cipher1)) => decoded = <<>>

\* C11 witness: two keys and one cipher value, both nonzero, gave the empty
\* string.
C11_Witness ==
    /\ opc = "returned"
    /\ keys1 = <<<<0, 72>>, <<0, 101>>>> /\ cipher1 = <<<<0, 72>>>>
    /\ decoded = <<>>

\* the number of code points of well-formed UTF-8: its bytes that are not
\* continuation bytes
CodePointCount(s) == Cardinality({i \in 1..Len(s) : s[i] < 128 \/ s[i] > 191})

\* C12: for every value and seed ObfuscateString returns keys and cipher of
\* equal length, one entry per rune of value (per code point when value is
\* well-formed UTF-8, whatever the number of bytes), every key in [0, 2^32)
\* and every cipher entry the code point XOR the key.
C12_Shape ==
    opc \in {"obfuscated", "decoded", "again"} =>
        /\ Len(keys1) = Len(cipher1)
        /\ Len(keys1) = Len(Runes(value))
        /\ WellFormedUTF8(value) => Len(keys1) = CodePointCount(value)
        /\ \A i \in 1..Len(keys1) :
              /\ keys1[i][1] \in 0..65535 /\ keys1[i][2] \in 0..65535
              /\ cipher1[i] = XorWord(WordOf(Runes(value)[i]), keys1[i])

\* C12 witness: a value of seven bytes and three code points obfuscated with
\* seed 12345 into three keys and three cipher values.
C12_Witness ==
    /\ opc = "obfuscated" /\ seed = 12345
    /\ value = <<226, 130, 172, 195, 169, 240, 159, 152, 128>>
    /\ Len(value) = 9 /\ Len(keys1) = 3 /\ Len(cipher1) = 3
    /\ cipher1[1] = XorWord(<<0, 8364>>, keys1[1])

----------------------------------------------------------------------------
(* LoadEnvFile *)

\* lines of environment files: whitespace only, a comment after whitespace
\* that holds a '=', no '=', a plain definition, a value with quotes, a
\* further '=' and a '#', an empty value, a Bool, a padded line ending in a
\* carriage return, an empty name
LoadLines ==
    {S(<<" ", "\t">>),
     S(<<" ", " ", "#", " ", "A", "=", "1">>),
     S(<<"N", "O", "E", "Q">>),
     S(<<"A", "=", "1">>),
     S(<<"A", "=", "\"", "x", "=", "y", "\"", " ", "#", "z">>),
     S(<<"B", "=">>),
     S(<<"B", "=", "t", "r", "u", "e">>),
     S(<<"\t", "B", " ", "=", "0", " ", "\r">>),
     S(<<"A", "=", " ", "x", " ", "y", " ">>),
     S(<<"=", "v">>)}

RECURSIVE LineSeqsUpTo(_)
LineSeqsUpTo(n) ==
    IF n = 0 THEN {<<>>}
    ELSE LET shorter == LineSeqsUpTo(n - 1)
         IN  shorter \cup {Append(q, l) : q \in shorter, l \in LoadLines}

\* the file at the path: none, one that opens but cannot be read (a
\* directory), or a readable one with its bytes
LoadFiles ==
    {[state |-> "missing", content |-> <<>>],
     [state |-> "unreadable", content |-> <<>>]}
    \cup {[state |-> "readable", content |-> JoinLines(ls)] :
             ls \in LineSeqsUpTo(MaxLines)}

LoadInit ==
    /\ ldFile \in LoadFiles
    /\ ldFields = <<>> /\ ldErr = "none" /\ lpc = "start"
    /\ ObfIdle /\ DetIdle /\ ChkIdle /\ GenIdle /\ EnvIdle /\ ParseIdle /\ KeyIdle /\ SeedIdle

\* LoadEnvFile with ReadEnvFile reporting a line that has no '='
LoadEnvFileStrict ==
    /\ lpc = "start"
    /\ IF ldFile.state = "missing"
       THEN ldErr' = "open" /\ ldFields' = <<>>
       ELSE IF ldFile.state = "unreadable"
       THEN ldErr' = "read" /\ ldFields' = <<>>
       ELSE IF \E i \in 1..Len(SplitLines(ldFile.content)) :
                  LET line == TrimSpace(SplitLines(ldFile.content)[i])
                  IN  line # <<>> /\ line[1] # 35 /\ FirstIndex(line, 61) = 0
       THEN ldErr' = "parse" /\ ldFields' = <<>>
       ELSE LET envVars == ReadEnvFile(ldFile.content)
            IN  /\ ldErr' = "none"
                /\ \E o \in Orders(DOMAIN envVars) :
                      ldFields' = extractFieldsFromEnvVars(envVars, o)
    /\ lpc' = "done"
    /\ UNCHANGED ldFile
    /\ UNCHANGED <<obfVars, detVars, chkVars, genVars, evVars, prVars, kbVars, sdVars>>

\* fields, err := LoadEnvFile(filePath): os.Open fails, or os.ReadFile
\* fails, or the fields of the map ReadEnvFile built, in the order of the
\* range loop
LoadEnvFile ==
    /\ lpc = "start"
    /\ IF ldFile.state = "missing"
       THEN ldErr' = "open" /\ ldFields' = <<>>
       ELSE IF ldFile.state = "unreadable"
       THEN ldErr' = "read" /\ ldFields' = <<>>
       ELSE LET envVars == ReadEnvFile(ldFile.content)
            IN  /\ ldErr' = "none"
                /\ \E o \in Orders(DOMAIN envVars) :
                      ldFields' = extractFieldsFromEnvVars(envVars, o)
    /\ lpc' = "done"
    /\ UNCHANGED ldFile
    /\ UNCHANGED <<obfVars, detVars, chkVars, genVars, evVars, prVars, kbVars, sdVars>>

LoadNext == LoadEnvFile

SpecLoad == LoadInit /\ [][LoadNext]_vars

\* LoadEnvFile returned for a file that could be read
Loaded == lpc = "done" /\ ldFile.state = "readable"

\* the lines of the file, between newlines
FileLines == SplitLines(ldFile.content)

\* Unicode white space among the characters the files are made of
IsBlank(b) == b \in {9, 10, 11, 12, 13, 32}

\* line l without the white space at its ends
RECURSIVE Stripped(_)
Stripped(l) ==
    IF l = <<>> THEN l
    ELSE IF IsBlank(l[1]) THEN Stripped(Tail(l))
    ELSE IF IsBlank(l[Len(l)]) THEN Stripped(SubSeq(l, 1, Len(l) - 1))
    ELSE l

\* a line that defines nothing: empty after trimming, a comment, or without
\* any '='
SkipLine(l) ==
    \/ Stripped(l) = <<>>
    \/ Stripped(l)[1] = 35
    \/ \A i \in 1..Len(l) : l[i] # 61

\* the lines of the file that define something
DefLines == {i \in 1..Len(FileLines) : ~SkipLine(FileLines[i])}

\* the position of the first '=' of a text that has one
FirstEq(t) == CHOOSE n \in 1..Len(t) : t[n] = 61 /\ \A j \in 1..(n - 1) : t[j] # 61

\* what a line that defines something defines: the text before its first
\* '=' and the text after it, white space at the ends of the line aside
NameOfLine(l) == SubSeq(Stripped(l), 1, FirstEq(Stripped(l)) - 1)
ValueOfLine(l) ==
    SubSeq(Stripped(l), FirstEq(Stripped(l)) + 1, Len(Stripped(l)))

\* C13: LoadEnvFile of a readable file returns no error and one field per
\* name defined by the lines that are not empty after trimming, not comments
\* and have a '='; the other lines give no field, and a file made only of
\* them (or empty) yields zero fields.
C13_SkippedLines ==
    Loaded =>
        /\ ldErr = "none"
        /\ {ldFields[k].EnvName : k \in 1..Len(ldFields)}
              = {NameOfLine(FileLines[i]) : i \in DefLines}
        /\ Len(ldFields) <= Cardinality(DefLines)
        /\ DefLines = {} => ldFields = <<>>

\* C13 witness: a file of a blank line, an indented comment holding a '='
\* and a line without '=' loaded to zero fields and no error.
C13_Witness ==
    /\ Loaded /\ ldErr = "none" /\ ldFields = <<>>
    /\ ldFile.content = JoinLines(<<S(<<" ", "\t">>),
                                    S(<<" ", " ", "#", " ", "A", "=", "1">>),
                                    S(<<"N", "O", "E", "Q">>)>>)

\* C14: every definition line is split at its first '=' only: the field it
\* gives (when no later line defines the name again) has the text before the
\* first '=' as name and everything after it as value, further '=', '#' and
\* quotes included.
C14_FirstEquals ==
    Loaded =>
        \A i \in DefLines :
            (\A j \in DefLines :
                j > i => NameOfLine(FileLines[j]) # NameOfLine(FileLines[i]))
            => \E k \in 1..Len(ldFields) :
                  /\ ldFields[k].EnvName = NameOfLine(FileLines[i])
                  /\ ldFields[k].Value = ValueOfLine(FileLines[i])

\* C14 witness: the line A="x=y" #z gave a field A whose value is "x=y" #z,
\* quotes, second '=' and '#' kept.
C14_Witness ==
    /\ Loaded
    /\ ldFile.content = S(<<"A", "=", "\"", "x", "=", "y", "\"", " ", "#", "z">>)
    /\ Len(ldFields) = 1
    /\ ldFields[1].EnvName = S(<<"A">>)
    /\ ldFields[1].Value = S(<<"\"", "x", "=", "y", "\"", " ", "#", "z">>)

\* the last line of the file that defines name, 0 when none does
LastDefining(name) ==
    LET defining == {i \in DefLines : NameOfLine(FileLines[i]) = name}
    IN  IF defining = {} THEN 0
        ELSE CHOOSE i \in defining : \A j \in defining : j <= i

\* C15: the names of the loaded fields are pairwise different, and a field
\* carries the value of the last line of the file that defines its name,
\* with the type inferred from that value.
C15_LastWins ==
    Loaded =>
        /\ \A j, k \in 1..Len(ldFields) :
              ldFields[j].EnvName = ldFields[k].EnvName => j = k
        /\ \A k \in 1..Len(ldFields) :
              LET i == LastDefining(ldFields[k].EnvName)
              IN  /\ i # 0
                  /\ ldFields[k].Value = ValueOfLine(FileLines[i])
                  /\ ldFields[k].Type =
                        IF ValueOfLine(FileLines[i]) = <<>> THEN "string"
                        ELSE DetectFieldType(ValueOfLine(FileLines[i]))

\* C15 witness: B=true, then A=1, then B= gave two fields, B with the empty
\* value of the last line and type string.
C15_Witness ==
    /\ Loaded
    /\ ldFile.content = JoinLines(<<S(<<"B", "=", "t", "r", "u", "e">>),
                                    S(<<"A", "=", "1">>), S(<<"B", "=">>)>>)
    /\ Len(ldFields) = 2
    /\ \E k \in 1..2 : /\ ldFields[k].EnvName = S(<<"B">>)
                       /\ ldFields[k].Value = <<>>
                       /\ ldFields[k].Type = "string"

\* C16: a field with the empty right-hand side has type string and the
\* empty value; a field with a non-empty right-hand side has the type
\* DetectFieldType gives that text (1 and true are bool, "x=y" #z a string).
C16_EmptyIsString ==
    Loaded =>
        \A k \in 1..Len(ldFields) :
            /\ ldFields[k].Value = <<>> => ldFields[k].Type = "string"
            /\ ldFields[k].Value # <<>> =>
                  ldFields[k].Type = DetectFieldType(ldFields[k].Value)
            /\ ldFields[k].Value \in {S(<<"1">>), S(<<"t", "r", "u", "e">>)} =>
                  ldFields[k].Type = "bool"
            /\ ldFields[k].Value = S(<<"v">>) => ldFields[k].Type = "string"

\* C16 witness: B= and A=1 gave B of type string with value "" and A of type
\* bool.
C16_Witness ==
    /\ Loaded
    /\ ldFile.content = JoinLines(<<S(<<"B", "=">>), S(<<"A", "=", "1">>)>>)
    /\ \E j, k \in 1..Len(ldFields) :
          /\ ldFields[j].EnvName = S(<<"B">>) /\ ldFields[j].Value = <<>>
          /\ ldFields[j].Type = "string"
          /\ ldFields[k].EnvName = S(<<"A">>) /\ ldFields[k].Type = "bool"

\* C17: LoadEnvFile returns an error, and no fields, exactly when the file
\* cannot be opened or read; for a readable file, whatever its lines, it
\* returns without error.
C17_ErrorIffUnreadable ==
    lpc = "done" =>
        /\ ldErr # "none" <=> ldFile.state # "readable"
        /\ ldErr # "none" => ldFields = <<>>

\* C17 witness: a readable file with a line without '=' and a line with an
\* empty name loaded without error; the malformed line gave nothing.
C17_Witness ==
    /\ Loaded /\ ldErr = "none"
    /\ ldFile.content = JoinLines(<<S(<<"N", "O", "E", "Q">>), S(<<"=", "v">>)>>)
    /\ Len(ldFields) = 1 /\ ldFields[1].EnvName = <<>>

----------------------------------------------------------------------------
(* The constants of the merged output *)

\* the emitted variables called name
VarsNamed(name) == {i \in DeclsOf("var") : outFile.content[i].name = name}

\* the names the key table and the cipher table of field name of environment
\* e are emitted under
KeyTableName(e, name) ==
    ToUpper(e) \o S(<<"_", "_", "e", "n", "v", "i", "e", "d", "k", "e", "y">>) \o name
DataTableName(e, name) ==
    ToUpper(e) \o S(<<"_", "_", "e", "n", "v", "i", "e", "d", "d", "a", "t", "a">>)
        \o name

\* the fields that need obfuscation: String or Float with a non-empty value
NeedsObfuscation(f) == f.Type \in {"string", "float64"} /\ f.Value # <<>>

\* C18: the merged output holds one key table and one cipher table for a
\* field exactly when its type is String or Float and its value is not
\* empty, and no other table; the constructors of Int and Bool fields parse
\* the raw text.
C18_ObfuscatedIff ==
    Generated =>
        /\ \A e \in DOMAIN cfgFiles : \A i \in 1..Len(LoadedFields(e)) :
              LET f == LoadedFields(e)[i]
                  n == IF NeedsObfuscation(f) THEN 1 ELSE 0
              IN  /\ Cardinality(VarsNamed(KeyTableName(e, f.EnvName))) = n
                  /\ Cardinality(VarsNamed(DataTableName(e, f.EnvName))) = n
                  /\ f.Type = "int" =>
                        /\ InitOf(e, f.EnvName).fn = "ParseInt"
                        /\ InitOf(e, f.EnvName).lit = f.Value
                  /\ f.Type = "bool" =>
                        /\ InitOf(e, f.EnvName).fn = "ParseBool"
                        /\ InitOf(e, f.EnvName).lit = f.Value
        /\ \A v \in DeclsOf("var") :
              \E e \in DOMAIN cfgFiles : \E i \in 1..Len(LoadedFields(e)) :
                  /\ NeedsObfuscation(LoadedFields(e)[i])
                  /\ outFile.content[v].name
                        \in {KeyTableName(e, LoadedFields(e)[i].EnvName),
                             DataTableName(e, LoadedFields(e)[i].EnvName)}

\* C18 witness: dev with an Int and a Float, prod with a String and an empty
\* value: four tables, for dev's B and prod's A, none for dev's A or prod's B.
C18_Witness ==
    /\ Generated
    /\ cfgFiles = (Dev :> FileOf(<<LineA7, LineB15>>))
                  @@ (Prod :> FileOf(<<LineNote, LineAx, LineBnone, <<>>>>))
    /\ Cardinality(DeclsOf("var")) = 4
    /\ Cardinality(VarsNamed(KeyTableName(Dev, S(<<"B">>)))) = 1
    /\ Cardinality(VarsNamed(DataTableName(Prod, S(<<"A">>)))) = 1
    /\ VarsNamed(KeyTableName(Dev, S(<<"A">>))) = {}
    /\ VarsNamed(KeyTableName(Prod, S(<<"B">>))) = {}

\* a configuration whose two environments have names that differ by case
NamesInit ==
    /\ cfgFiles \in [{S(<<"d", "e", "v">>), S(<<"D", "e", "v">>)} -> EnvFiles]
    /\ cfgSeed = 12345
    /\ gpc = "start"
    /\ allEnvVars = <<>> /\ mergedData = NoData /\ gerr = NoError
    /\ gclock = 1 /\ obfCalls = 0
    /\ outFile \in {Absent, Stale}
    /\ runs = 1 /\ prevOut = Absent
    /\ ObfIdle /\ DetIdle /\ ChkIdle /\ LoadIdle /\ EnvIdle /\ ParseIdle /\ KeyIdle /\ SeedIdle

NamesNext == GenLoad \/ GenCheck \/ GenPrepare \/ GenWrite

SpecNames == NamesInit /\ [][NamesNext]_vars

\* C19: the names of the emitted key and cipher constants are pairwise
\* distinct across the whole output.
C19_DistinctConstNames ==
    Generated =>
        \A i, j \in DeclsOf("var") :
            outFile.content[i].name = outFile.content[j].name => i = j

----------------------------------------------------------------------------
(* Generator.GenerateFromEnvVars and generateConfigFile *)

\* base64.StdEncoding: the character of a 6-bit value
Base64Char(n) ==
    IF n < 26 THEN 65 + n
    ELSE IF n < 52 THEN 97 + (n - 26)
    ELSE IF n < 62 THEN 48 + (n - 52)
    ELSE IF n = 62 THEN 43 ELSE 47

\* base64.StdEncoding.EncodeToString
RECURSIVE Base64(_)
Base64(b) ==
    IF b = <<>> THEN <<>>
    ELSE IF Len(b) = 1
    THEN <<Base64Char(b[1] \div 4), Base64Char((b[1] % 4) * 16), 61, 61>>
    ELSE IF Len(b) = 2
    THEN <<Base64Char(b[1] \div 4),
           Base64Char((b[1] % 4) * 16 + (b[2] \div 16)),
           Base64Char((b[2] % 16) * 4), 61>>
    ELSE <<Base64Char(b[1] \div 4),
           Base64Char((b[1] % 4) * 16 + (b[2] \div 16)),
           Base64Char((b[2] % 16) * 4 + (b[3] \div 64)),
           Base64Char(b[3] % 64)>>
         \o Base64(SubSeq(b, 4, Len(b)))

\* Obfuscate(value, key) for a non-empty key: the bytes of value XOR the key
\* repeated, in base64
Obfuscate(v, key) ==
    IF v = <<>> THEN <<>>
    ELSE Base64([i \in 1..Len(v) |-> Xor(v[i], key[((i - 1) % Len(key)) + 1])])

\* the key generateConfigFile obfuscates with
ObfuscationKey ==
    S(<<"g", "o", "-", "e", "n", "v", "i", "e", "d", "-",
        "o", "b", "f", "u", "s", "c", "a", "t", "i", "o", "n">>)

\* os.Getenv and os.LookupEnv on the process environment environ, a function
\* from the names that are set to their values
Getenv(environ, name) == IF name \in DOMAIN environ THEN environ[name] ELSE <<>>
LookupEnv(environ, name) == name \in DOMAIN environ

\* the loop of GenerateFromEnvVars over fields from position i: the error it
\* returns with, if any, and the fields as the loop leaves them
RECURSIVE EnvVarsLoop(_, _, _)
EnvVarsLoop(fields, environ, i) ==
    IF i > Len(fields) THEN [err |-> "none", fields |-> fields]
    ELSE LET field == fields[i]
             v     == Getenv(environ, field.EnvName)
             With(x) == [fields EXCEPT ![i].Value = x]
         IN  IF v # <<>>
             THEN EnvVarsLoop(With(v), environ, i + 1)
             ELSE IF Getenv(environ, field.EnvName) = <<>>
             THEN IF LookupEnv(environ, field.EnvName)
                  THEN [err |-> "empty", fields |-> fields]
                  ELSE EnvVarsLoop(fields, environ, i + 1)
             ELSE IF field.DefaultValue # <<>>
             THEN EnvVarsLoop(With(field.DefaultValue), environ, i + 1)
             ELSE IF ~field.Optional
             THEN [err |-> "notfound", fields |-> fields]
             ELSE EnvVarsLoop(fields, environ, i + 1)

\* the loop of generateConfigFile obfuscating the String fields in place
ObfuscateFields(fields) ==
    [i \in 1..Len(fields) |->
        IF fields[i].Type = "string" /\ fields[i].Value # <<>>
        THEN [fields[i] EXCEPT !.Value = Obfuscate(fields[i].Value, ObfuscationKey)]
        ELSE fields[i]]

\* configTemplate executed on the configuration: per field its name, its
\* type and the call the constructor makes on the text of its value
ConfigFileOf(fields) ==
    [exists |-> TRUE,
     content |-> [i \in 1..Len(fields) |->
                    [name |-> fields[i].EnvName,
                     type |-> fields[i].Type,
                     fn   |-> CASE fields[i].Type = "string" -> "Deobfuscate"
                                [] fields[i].Type = "int" -> "ParseInt"
                                [] fields[i].Type = "bool" -> "ParseBool"
                                [] fields[i].Type = "float64" -> "ParseFloat"
                                [] OTHER -> "literal",
                     arg  |-> fields[i].Value]]]

\* Field values of a configuration: type, preset value, default, optional
FieldShapes ==
    [Type : {"string", "int"}, Value : {<<>>}, DefaultValue : {<<>>, S(<<"d">>)},
     Optional : BOOLEAN]
    \cup {[Type |-> "string", Value |-> S(<<"p">>), DefaultValue |-> <<>>,
           Optional |-> FALSE],
          [Type |-> "int", Value |-> S(<<"7">>), DefaultValue |-> <<>>,
           Optional |-> TRUE]}

\* the name of the i-th field: X, Y, Z, ...
FieldNameAt(i) == <<87 + i>>

\* configurations of n fields
FieldLists(n) ==
    {[i \in 1..n |->
         [EnvName |-> FieldNameAt(i), Type |-> sh[i].Type, Value |-> sh[i].Value,
          DefaultValue |-> sh[i].DefaultValue, Optional |-> sh[i].Optional]] :
        sh \in [1..n -> FieldShapes]}

\* process environments over the names of n fields: each unset, set to the
\* empty string, or set to v
Environs(n) ==
    UNION {[N -> {<<>>, S(<<"v">>)}] : N \in SUBSET {FieldNameAt(i) : i \in 1..n}}

EnvInit ==
    /\ \E n \in 1..MaxFields :
          /\ evFields \in FieldLists(n)
          /\ evEnviron \in Environs(n)
    /\ evDisk \in {"ok", "nomkdir", "nocreate"}
    /\ evErr = "none" /\ evFile = Absent /\ evEntry = <<>> /\ epc = "start"
    /\ ObfIdle /\ DetIdle /\ ChkIdle /\ GenIdle /\ LoadIdle /\ ParseIdle /\ KeyIdle /\ SeedIdle

\* generateConfigFile leaving Int, Bool and Float fields obfuscated too
GenerateConfigFileAllTypes(fields, disk) ==
    LET done == [i \in 1..Len(fields) |->
                    IF fields[i].Value # <<>>
                    THEN [fields[i] EXCEPT
                             !.Value = Obfuscate(fields[i].Value, ObfuscationKey)]
                    ELSE fields[i]]
    IN  IF disk = "nomkdir"
        THEN [err |-> "mkdir", fields |-> fields, file |-> Absent]
        ELSE IF disk = "nocreate"
        THEN [err |-> "create", fields |-> done, file |-> Absent]
        ELSE [err |-> "none", fields |-> done, file |-> ConfigFileOf(done)]

\* g.generateConfigFile() on g.config.Fields: the directory is made, the
\* String fields are obfuscated in place, the file is created and the
\* template written; the error, the fields as it leaves them, the file
generateConfigFile(fields, disk) ==
    IF disk = "nomkdir"
    THEN [err |-> "mkdir", fields |-> fields, file |-> Absent]
    ELSE IF disk = "nocreate"
    THEN [err |-> "create", fields |-> ObfuscateFields(fields), file |-> Absent]
    ELSE [err |-> "none", fields |-> ObfuscateFields(fields),
          file |-> ConfigFileOf(ObfuscateFields(fields))]

\* err := g.GenerateFromEnvVars(), on a new Generator or again on the same
\* one: the loop over the fields, then generateConfigFile
GenerateFromEnvVars ==
    /\ epc \in {"start", "done"}
    /\ Len(evEntry) < MaxConfigRuns
    /\ LET r == EnvVarsLoop(evFields, evEnviron, 1)
           c == generateConfigFile(r.fields, evDisk)
       IN  IF r.err # "none"
           THEN /\ evErr' = r.err /\ evFields' = r.fields
                /\ UNCHANGED <<evFile, evEntry>>
           ELSE /\ evErr' = c.err /\ evFields' = c.fields
                /\ evFile' = IF c.err = "none" THEN c.file ELSE evFile
                /\ evEntry' = Append(evEntry, r.fields)
    /\ epc' = "done"
    /\ UNCHANGED <<evEnviron, evDisk>>
    /\ UNCHANGED <<obfVars, detVars, chkVars, genVars, ldVars, prVars, kbVars, sdVars>>

EnvNext == GenerateFromEnvVars

SpecEnv == EnvInit /\ [][EnvNext]_vars

\* the variable of field f was not found: it is unset, and f has no default
\* and is not optional
NotFound(f) ==
    /\ f.EnvName \notin DOMAIN evEnviron
    /\ f.DefaultValue = <<>> /\ ~f.Optional

\* the variable of field f is set to the empty string
SetEmpty(f) == f.EnvName \in DOMAIN evEnviron /\ evEnviron[f.EnvName] = <<>>

\* C20: GenerateFromEnvVars stops with an error and writes no file whenever
\* the variable of a required field is not found (unset, no default, not
\* optional) or is set to the empty string.
C20_StopsOnMissing ==
    (epc = "done" /\ \E i \in 1..Len(evFields) :
                        \/ NotFound(evFields[i])
                        \/ ~evFields[i].Optional /\ SetEmpty(evFields[i]))
    => (evErr # "none" /\ evFile = Absent)

----------------------------------------------------------------------------
(* ParseInt and ParseBool *)

\* texts of TestParseInt and TestParseBool, and numbers past the limits of int
ParseSamples ==
    {S(<<"1", "2", "3">>), S(<<"2", "1", "4", "7", "4", "8", "3", "6", "4", "7">>),
     S(<<"1", "2", "3", ".", "4", "5">>), S(<<"a", "b", "c">>),
     S(<<"F", "A", "L", "S", "E">>), S(<<"F", "a", "l", "s", "e">>),
     S(<<"y", "e", "s">>), S(<<"f">>), S(<<"F">>), S(<<"T">>),
     S(<<"9", "9", "9", "9", "9", "9", "9", "9", "9", "9", "9", "9", "9", "9",
         "9", "9", "9", "9", "9", "9">>),
     S(<<"-", "9", "9", "9", "9", "9", "9", "9", "9", "9", "9", "9", "9", "9",
         "9", "9", "9", "9", "9", "9", "9">>),
     S(<<"-", "9", "2", "2", "3", "3", "7", "2", "0", "3", "6", "8", "5", "4",
         "7", "7", "5", "8", "0", "9">>)}

ParseInit ==
    /\ prText \in TextsUpTo(RawUnits, MaxRawUnits) \cup RawSamples \cup ParseSamples
    /\ prInt = ZeroInt /\ prBool = FALSE /\ ppc = "start"
    /\ ObfIdle /\ DetIdle /\ ChkIdle /\ GenIdle /\ LoadIdle /\ EnvIdle
    /\ KeyIdle /\ SeedIdle

\* result := ParseInt(value)
CallParseInt ==
    /\ ppc = "start"
    /\ prInt' = ParseInt(prText)
    /\ ppc' = "int"
    /\ UNCHANGED <<prText, prBool>>
    /\ UNCHANGED <<obfVars, detVars, chkVars, genVars, ldVars, evVars, kbVars, sdVars>>

\* result := ParseBool(value)
CallParseBool ==
    /\ ppc = "start"
    /\ prBool' = ParseBool(prText)
    /\ ppc' = "bool"
    /\ UNCHANGED <<prText, prInt>>
    /\ UNCHANGED <<obfVars, detVars, chkVars, genVars, ldVars, evVars, kbVars, sdVars>>

ParseNext == CallParseInt \/ CallParseBool

SpecParse == ParseInit /\ [][ParseNext]_vars

\* the truth value a boolean literal stands for
TruthOf(t) == LowerAll(t) \in {S(<<"t", "r", "u", "e">>), S(<<"t">>), S(<<"1">>)}

\* C21: ParseInt and ParseBool never fail: for a text that is not a valid
\* literal of the type (empty, non-numeric, whitespace-padded, a float given
\* to ParseInt, numeric text out of the range of int) they return the zero
\* value, 0 or false, and for a valid literal the value it stands for.
C21_ZeroOnInvalid ==
    /\ ppc = "int" =>
          prInt = IF AtoiOK(prText) THEN DecimalNumber(prText) ELSE ZeroInt
    /\ ppc = "bool" =>
          prBool = IF ParseBoolOK(prText) THEN TruthOf(prText) ELSE FALSE

----------------------------------------------------------------------------
(* The literals DetectFieldType takes for Bool, Int and Float *)

\* the twelve spellings of a boolean
BoolSpellings ==
    {S(<<"1">>), S(<<"0">>), S(<<"t">>), S(<<"f">>), S(<<"T">>), S(<<"F">>),
     S(<<"t", "r", "u", "e">>), S(<<"f", "a", "l", "s", "e">>),
     S(<<"T", "R", "U", "E">>), S(<<"F", "A", "L", "S", "E">>),
     S(<<"T", "r", "u", "e">>), S(<<"F", "a", "l", "s", "e">>)}

\* true or false in any mix of upper and lower case
AnyCaseBool(t) ==
    LowerAll(t) \in {S(<<"t", "r", "u", "e">>), S(<<"f", "a", "l", "s", "e">>)}

\* C22 as stated: every text equal to true or false under case-insensitive
\* comparison, and each of 1, 0, t, f, T, F, is classified as Bool.
C22_AnyCaseIsBool ==
    (ftype # "none" /\ (AnyCaseBool(raw) \/ (Len(raw) = 1 /\ raw \in BoolSpellings)))
    => ftype = "bool"

\* C22, amended: each of the twelve spellings 1, 0, t, f, T, F, true, false,
\* TRUE, FALSE, True, False is classified as Bool, and every other case mix
\* of true or false is classified as String.
C22_TwelveSpellings ==
    ftype # "none" =>
        /\ raw \in BoolSpellings => ftype = "bool"
        /\ (AnyCaseBool(raw) /\ raw \notin BoolSpellings) => ftype = "string"

\* C22 witness: the mixed-case text tRuE was classified, as a String.
C22_Witness == raw = S(<<"t", "R", "u", "E">>) /\ ftype = "string"

\* an optional '+' or '-' followed by one or more decimal digits
IsSignedDigits(t) ==
    LET d == IF Len(t) >= 1 /\ t[1] \in {43, 45} THEN Tail(t) ELSE t
    IN  Len(d) >= 1 /\ \A i \in 1..Len(d) : IsDigit(d[i])

\* digit sequence a is below digit sequence b of the same length, or equal
RECURSIVE NotAbove(_, _)
NotAbove(a, b) ==
    IF a = <<>> THEN TRUE
    ELSE IF a[1] # b[1] THEN a[1] < b[1]
    ELSE NotAbove(Tail(a), Tail(b))

\* the number signed digits t spell lies in -2^63 .. 2^63 - 1
FitsInt64(t) ==
    LET n == DecimalNumber(t)
        top == IF n.neg THEN <<9, 2, 2, 3, 3, 7, 2, 0, 3, 6, 8, 5, 4, 7, 7, 5, 8, 0, 8>>
               ELSE <<9, 2, 2, 3, 3, 7, 2, 0, 3, 6, 8, 5, 4, 7, 7, 5, 8, 0, 7>>
    IN  \/ Len(n.digits) < Len(top)
        \/ Len(n.digits) = Len(top) /\ NotAbove(n.digits, top)

IsNumericChar(b) == IsDigit(b) \/ b \in {46, 101, 69, 45, 43}

\* t without its sign, if it has one
Unsigned(t) == IF Len(t) >= 1 /\ t[1] \in {43, 45} THEN Tail(t) ELSE t

\* inf or infinity with an optional sign, or nan, in any mix of case
IsSpecialFloat(t) ==
    \/ LowerAll(Unsigned(t)) \in {S(<<"i", "n", "f">>),
                                  S(<<"i", "n", "f", "i", "n", "i", "t", "y">>)}
    \/ LowerAll(t) = S(<<"n", "a", "n">>)

\* t begins, after an optional sign, with 0x or 0X
IsHexPrefixed(t) ==
    LET u == Unsigned(t) IN Len(u) >= 2 /\ u[1] = 48 /\ u[2] \in {120, 88}

\* a character of a hexadecimal literal: of a decimal one, a letter a to f,
\* the p of the exponent, the x of the prefix
IsHexChar(b) == IsNumericChar(b) \/ Lower(b) \in {97, 98, 99, 100, 102, 112, 120}

\* C24 as stated: the type is Float only for text made of an optional
\* leading '-', digits, a point and an e/E exponent; text that is not a
\* boolean literal and has a non-numeric character in it (NaN, inf, 123abc)
\* is a String.
C24_FloatOnlyPlain ==
    ftype # "none" =>
        /\ ftype = "float64" =>
              /\ \A i \in 1..Len(raw) : IsNumericChar(raw[i])
              /\ raw[1] # 43
        /\ (raw \notin BoolSpellings /\ \E i \in 1..Len(raw) : ~IsNumericChar(raw[i]))
              => ftype = "string"

\* C24, amended: the type is Float only for text made of an optional leading
\* '+' or '-', digits, a point and an e/E exponent, with underscores between
\* digits allowed, for a hexadecimal literal with the 0x prefix, and for inf,
\* infinity and nan in any mix of case; NaN, inf and Infinity are Float; any
\* other text that is not a boolean literal and has a character in it that
\* is not numeric (as 123abc) is a String.
C24_FloatShapes ==
    ftype # "none" =>
        /\ ftype = "float64" =>
              \/ IsSpecialFloat(raw)
              \/ IsHexPrefixed(raw) /\ \A i \in 1..Len(raw) :
                                         IsHexChar(raw[i]) \/ raw[i] = 95
              \/ \A i \in 1..Len(raw) : IsNumericChar(raw[i]) \/ raw[i] = 95
        /\ raw \in {S(<<"N", "a", "N">>), S(<<"n", "a", "n">>), S(<<"i", "n", "f">>),
                    S(<<"I", "n", "f", "i", "n", "i", "t", "y">>)} => ftype = "float64"
        /\ ( /\ raw \notin BoolSpellings
             /\ ~IsSpecialFloat(raw) /\ ~IsHexPrefixed(raw)
             /\ \E i \in 1..Len(raw) : ~IsNumericChar(raw[i]) /\ raw[i] # 95 )
              => ftype = "string"

\* C24 witness: the text NaN was classified, as a Float.
C24_Witness == raw = S(<<"N", "a", "N">>) /\ ftype = "float64"

----------------------------------------------------------------------------
(* White space around the values of a file *)

\* text t without the white space at its end
RECURSIVE StripRight(_)
StripRight(t) ==
    IF t # <<>> /\ IsBlank(t[Len(t)]) THEN StripRight(SubSeq(t, 1, Len(t) - 1)) ELSE t

\* the text after the first '=' of a line that has one, as it is in the file
AfterFirstEq(l) == SubSeq(l, FirstEq(l) + 1, Len(l))

\* C25 as stated: the value of every loaded field is the text after the
\* first '=' of its line with the white space around it removed: it neither
\* begins nor ends with white space.
C25_ValueTrimmed ==
    Loaded =>
        \A k \in 1..Len(ldFields) :
            LET v == ldFields[k].Value
                l == FileLines[LastDefining(ldFields[k].EnvName)]
            IN  /\ v = Stripped(AfterFirstEq(l))
                /\ v # <<>> => ~IsBlank(v[1]) /\ ~IsBlank(v[Len(v)])

\* C25, amended: the value of every loaded field is the text after the
\* first '=' of its line with the white space at the end of the line
\* removed: it does not end with white space, while white space right after
\* the '=' and inside the value is kept.
C25_ValueRightTrimmed ==
    Loaded =>
        \A k \in 1..Len(ldFields) :
            LET v == ldFields[k].Value
                l == FileLines[LastDefining(ldFields[k].EnvName)]
            IN  /\ v = StripRight(AfterFirstEq(l))
                /\ v # <<>> => ~IsBlank(v[Len(v)])

\* C25 witness: the line "A= x y " gave the field A the value " x y": the
\* space after the '=' kept, the one at the end of the line removed.
C25_Witness ==
    /\ Loaded
    /\ ldFile.content = S(<<"A", "=", " ", "x", " ", "y", " ">>)
    /\ Len(ldFields) = 1
    /\ ldFields[1].Value = S(<<" ", "x", " ", "y">>)

----------------------------------------------------------------------------
(* Obfuscate and Deobfuscate with a key *)

\* the six bits a character of the base64 alphabet stands for, 64 for any
\* other character
Base64Value(c) ==
    IF c >= 65 /\ c <= 90 THEN c - 65
    ELSE IF c >= 97 /\ c <= 122 THEN c - 97 + 26
    ELSE IF c >= 48 /\ c <= 57 THEN c - 48 + 52
    ELSE IF c = 43 THEN 62
    ELSE IF c = 47 THEN 63
    ELSE 64

\* text t without its carriage returns and newlines, which the decoder skips
RECURSIVE WithoutNewlines(_)
WithoutNewlines(t) ==
    IF t = <<>> THEN <<>>
    ELSE IF t[1] \in {10, 13} THEN WithoutNewlines(Tail(t))
    ELSE <<t[1]>> \o WithoutNewlines(Tail(t))

\* the bytes of base64 text t taken four characters at a time: padding only
\* at the end of the last four, left-over bits dropped
RECURSIVE DecodeQuanta(_)
DecodeQuanta(t) ==
    IF t = <<>> THEN [ok |-> TRUE, bytes |-> <<>>]
    ELSE IF Len(t) < 4 THEN [ok |-> FALSE, bytes |-> <<>>]
    ELSE LET a == Base64Value(t[1])
             b == Base64Value(t[2])
             c == Base64Value(t[3])
             d == Base64Value(t[4])
             b1 == a * 4 + (b \div 16)
             b2 == (b % 16) * 16 + (c \div 4)
             b3 == (c % 4) * 64 + d
             rest == DecodeQuanta(SubSeq(t, 5, Len(t)))
         IN  IF a = 64 \/ b = 64 THEN [ok |-> FALSE, bytes |-> <<>>]
             ELSE IF t[3] = 61
             THEN IF t[4] = 61 /\ Len(t) = 4
                  THEN [ok |-> TRUE, bytes |-> <<b1>>]
                  ELSE [ok |-> FALSE, bytes |-> <<>>]
             ELSE IF c = 64 THEN [ok |-> FALSE, bytes |-> <<>>]
             ELSE IF t[4] = 61
             THEN IF Len(t) = 4
                  THEN [ok |-> TRUE, bytes |-> <<b1, b2>>]
                  ELSE [ok |-> FALSE, bytes |-> <<>>]
             ELSE IF d = 64 THEN [ok |-> FALSE, bytes |-> <<>>]
             ELSE [ok |-> rest.ok,
                   bytes |-> IF rest.ok THEN <<b1, b2, b3>> \o rest.bytes ELSE <<>>]

\* base64.StdEncoding.DecodeString: whether it returns no error, and the bytes
Base64Decode(t) == DecodeQuanta(WithoutNewlines(t))

\* Deobfuscate XOR-ing every byte with the first byte of the key
DeobfuscateFirstKeyByte(obfuscatedValue, key) ==
    IF obfuscatedValue = <<>> THEN <<>>
    ELSE LET d == Base64Decode(obfuscatedValue)
         IN  IF ~d.ok THEN <<>>
             ELSE [i \in 1..Len(d.bytes) |-> Xor(d.bytes[i], key[1])]

\* Deobfuscate(obfuscatedValue, key) for a non-empty key: "" for the empty
\* text and for text that is not base64, else the decoded bytes XOR the key
\* repeated
Deobfuscate(obfuscatedValue, key) ==
    IF obfuscatedValue = <<>> THEN <<>>
    ELSE LET d == Base64Decode(obfuscatedValue)
         IN  IF ~d.ok THEN <<>>
             ELSE [i \in 1..Len(d.bytes) |->
                      Xor(d.bytes[i], key[((i - 1) % Len(key)) + 1])]

\* the keys: none, one byte, two bytes, a byte above 127, the key of
\* generateConfigFile
ObfuscationKeys == {<<>>, S(<<"k">>), S(<<"a", "b">>), <<255>>, ObfuscationKey}

\* texts handed to Deobfuscate that Obfuscate did not make
GivenTexts ==
    {S(<<"K", "g", "=", "=">>), S(<<"K", "g">>), S(<<"K", "g", "=">>),
     <<33, 33, 33, 33>>, S(<<"K", "g", "=", "=", "K", "g", "=", "=">>),
     S(<<"I", "w", "\n", "E", "=">>), S(<<"=", "=", "=", "=">>),
     S(<<"I", "w", "E", "j">>)}

KeyInit ==
    /\ kbValue \in TextsUpTo(ValueUnits, MaxValueUnits)
    /\ kbKey \in ObfuscationKeys
    /\ kbCipher = <<>> /\ kbPlain = <<>> /\ kpc = "start"
    /\ ObfIdle /\ DetIdle /\ ChkIdle /\ GenIdle /\ LoadIdle /\ EnvIdle
    /\ ParseIdle /\ SeedIdle

\* obfuscated := Obfuscate(value, key); with an empty key and a non-empty
\* value the index i%len(keyBytes) panics
CallObfuscate ==
    /\ kpc = "start"
    /\ IF kbKey = <<>> /\ kbValue # <<>>
       THEN kpc' = "panic" /\ UNCHANGED kbCipher
       ELSE kpc' = "obfuscated" /\ kbCipher' = Obfuscate(kbValue, kbKey)
    /\ UNCHANGED <<kbValue, kbKey, kbPlain>>
    /\ UNCHANGED <<obfVars, detVars, chkVars, genVars, ldVars, evVars, prVars, sdVars>>

\* plain := Deobfuscate(obfuscated, key)
CallDeobfuscate ==
    /\ kpc = "obfuscated"
    /\ kbPlain' = Deobfuscate(kbCipher, kbKey)
    /\ kpc' = "done"
    /\ UNCHANGED <<kbValue, kbKey, kbCipher>>
    /\ UNCHANGED <<obfVars, detVars, chkVars, genVars, ldVars, evVars, prVars, sdVars>>

\* plain := Deobfuscate(text, key) on a text from elsewhere
CallDeobfuscateGiven ==
    /\ kpc = "start" /\ kbKey # <<>>
    /\ \E t \in GivenTexts :
          /\ kbCipher' = t
          /\ kbPlain' = Deobfuscate(t, kbKey)
    /\ kpc' = "given"
    /\ UNCHANGED <<kbValue, kbKey>>
    /\ UNCHANGED <<obfVars, detVars, chkVars, genVars, ldVars, evVars, prVars, sdVars>>

KeyNext == CallObfuscate \/ CallDeobfuscate \/ CallDeobfuscateGiven

SpecKey == KeyInit /\ [][KeyNext]_vars

\* C26: for every non-empty value and non-empty key Deobfuscate of
\* Obfuscate(value, key) with the same key is the value, where Obfuscate is
\* base64 of the value's bytes XOR the key repeated ("A" under "k" is 0x2A,
\* "Kg=="; "AA" under "ab" is 0x20 0x23, "ICM="); for the empty value both
\* functions return the empty string.
C26_KeyRoundTrip ==
    /\ kpc = "done" =>
          /\ kbPlain = kbValue
          /\ kbValue = <<>> => kbCipher = <<>>
          /\ kbValue # <<>> => (Len(kbCipher) % 4) = 0 /\ kbCipher # <<>>
          /\ (kbValue = <<65>> /\ kbKey = S(<<"k">>)) => kbCipher = S(<<"K", "g", "=", "=">>)
          /\ (kbValue = <<65, 65>> /\ kbKey = S(<<"a", "b">>))
                => kbCipher = S(<<"I", "C", "M", "=">>)

\* C26 witness: a five-byte value (A, then a three-byte character, then a
\* stray byte) under the two-byte key came back from Deobfuscate.
C26_Witness ==
    /\ kpc = "done" /\ kbKey = S(<<"a", "b">>)
    /\ kbValue = <<65, 226, 130, 172, 255>>
    /\ kbPlain = kbValue /\ Len(kbCipher) = 8

----------------------------------------------------------------------------
(* ObfuscateString under two seeds *)

\* what the values obfuscated under two seeds are made of: a letter, a
\* three-byte character, a stray byte
SeedValueUnits == {<<65>>, <<226, 130, 172>>, <<255>>}

\* the readings of the clock a call with the given seed can make: it reads
\* the clock only when the seed is 0
ClockReads(sd) == IF sd = 0 THEN 1..MaxClock ELSE {0}

SeedInit ==
    /\ sdValue \in TextsUpTo(SeedValueUnits, MaxValueUnits)
    /\ sdSeedA \in Seeds /\ sdSeedB \in Seeds
    /\ sdNowA = 0 /\ sdNowB = 0
    /\ sdOutA = <<>> /\ sdOutB = <<>> /\ spc = "start"
    /\ ObfIdle /\ DetIdle /\ ChkIdle /\ GenIdle /\ LoadIdle /\ EnvIdle
    /\ ParseIdle /\ KeyIdle

\* keys1, encrypted1 := ObfuscateString(value, seed1)
ObfuscateWithA ==
    /\ spc = "start"
    /\ \E now \in ClockReads(sdSeedA) :
          /\ sdOutA' = ObfuscateString(sdValue, sdSeedA, now)
          /\ sdNowA' = now
    /\ spc' = "first"
    /\ UNCHANGED <<sdValue, sdSeedA, sdSeedB, sdNowB, sdOutB>>
    /\ UNCHANGED <<obfVars, detVars, chkVars, genVars, ldVars, evVars, prVars, kbVars>>

\* keys2, encrypted2 := ObfuscateString(value, seed2)
ObfuscateWithB ==
    /\ spc = "first"
    /\ \E now \in ClockReads(sdSeedB) :
          /\ sdOutB' = ObfuscateString(sdValue, sdSeedB, now)
          /\ sdNowB' = now
    /\ spc' = "done"
    /\ UNCHANGED <<sdValue, sdSeedA, sdSeedB, sdNowA, sdOutA>>
    /\ UNCHANGED <<obfVars, detVars, chkVars, genVars, ldVars, evVars, prVars, kbVars>>

SeedNext == ObfuscateWithA \/ ObfuscateWithB

SpecSeeds == SeedInit /\ [][SeedNext]_vars

\* both calls were made, with nonzero seeds
BothSeeded == spc = "done" /\ sdSeedA # 0 /\ sdSeedB # 0

\* the two seeds leave the same remainder modulo 2^31 - 1
Congruent(a, b) == (a % 2147483647) = (b % 2147483647)

----------------------------------------------------------------------------
(* Defaults and optional fields in GenerateFromEnvVars *)

\* generateConfigFile has been entered in the last call
ConfigEntered == epc = "done" /\ evErr \notin {"empty", "notfound"} /\ evEntry # <<>>

\* g.config.Fields as the last run of generateConfigFile found them
AtEntry == evEntry[Len(evEntry)]

\* the variable of field f is not set
Unset(f) == f.EnvName \notin DOMAIN evEnviron

\* C28: when the variable of a field is not set and the field has a
\* non-empty DefaultValue, the field's Value is DefaultValue when
\* generateConfigFile runs; and a call in which every variable is unset or
\* non-empty and every unset one has a default or is Optional returns no
\* error of a missing variable.
C28_DefaultUsed ==
    /\ ConfigEntered =>
          \A i \in 1..Len(AtEntry) :
              (Unset(AtEntry[i]) /\ AtEntry[i].DefaultValue # <<>>)
                  => AtEntry[i].Value = AtEntry[i].DefaultValue
    /\ ( /\ epc = "done"
         /\ \A i \in 1..Len(evFields) :
               /\ ~SetEmpty(evFields[i])
               /\ Unset(evFields[i]) =>
                     (evFields[i].DefaultValue # <<>> \/ evFields[i].Optional) )
          => evErr \notin {"empty", "notfound"}

----------------------------------------------------------------------------
(* generateConfigFile rewriting g.config.Fields *)

\* os.MkdirAll succeeded, so generateConfigFile went on to its loop
DirMade == evDisk # "nomkdir"

\* no variable of the process environment is set, so that a second call of
\* GenerateFromEnvVars reloads no field
NothingSet == DOMAIN evEnviron = {}

----------------------------------------------------------------------------
(* The key stream of one generation run *)

\* the key sequences of the obfuscated fields of environment e
KeyStreamsOf(e) ==
    {mergedData.Environments[e].Obfuscated[n].Key :
        n \in DOMAIN mergedData.Environments[e].Obfuscated}

\* the key sequences of the obfuscated fields of all environments
AllKeyStreams == UNION {KeyStreamsOf(e) : e \in DOMAIN mergedData.Environments}

\* C29: for a fixed nonzero seed the keys ObfuscateString produces depend on
\* the seed and the position only, not on the value: any two key sequences
\* of one generation run, of any fields of any environments, agree at every
\* position both have.
C29_SharedKeyStream ==
    (gpc \in {"prepared", "done"} /\ cfgSeed # 0) =>
        \A k1, k2 \in AllKeyStreams :
            \A i \in 1..Len(k1) : i <= Len(k2) => k1[i] = k2[i]

\* C29 witness: with seed 12345 the Float 1.5 of dev and the two-character
\* String of prod were obfuscated under key sequences of lengths 3 and 2
\* whose first two keys are the same.
C29_Witness ==
    /\ Generated /\ cfgSeed = 12345
    /\ cfgFiles = (Dev :> FileOf(<<LineA7, LineB15>>))
                  @@ (Prod :> FileOf(<<LineNote, LineAx, LineBnone, <<>>>>))
    /\ LET kd == mergedData.Environments[Dev].Obfuscated[S(<<"B">>)].Key
           kp == mergedData.Environments[Prod].Obfuscated[S(<<"A">>)].Key
       IN  /\ Len(kd) = 3 /\ Len(kp) = 2
           /\ kd[1] = kp[1] /\ kd[2] = kp[2]

====
